---- MODULE Spec2Model ----
(***************************************************************************)
(* Model of the NSEFI harvesting-and-snapshot pipeline:                    *)
(*   backend/adapters/ctuil.py  (CTUIL extraction),                        *)
(*   backend/adapters/cerc.py   (CERC list pages, date normalisation,      *)
(*                               de-duplication),                          *)
(*   backend/storage.py         (month snapshots on disk),                 *)
(*   publish_month.py           (the scheduled harvest job).               *)
(***************************************************************************)
EXTENDS Integers, Sequences, FiniteSets, TLC

VARIABLES
  \* ---- publish_month.py / storage.py -------------------------------
  started,    \* invocations started so far
  clock,      \* wall clock, in ticks (what ist_now() reads)
  files,      \* CACHE_DIR: month key -> file content
  pc,         \* per invocation: where the process stands
  job,        \* per invocation: "run" (publish_month.py) or "write" (a
              \* direct write_month_snapshot call) or "none"
  ym,         \* per invocation: (yyyy, mm) taken from ist_now()
  snap,       \* per invocation: the local variable snap / the payload
  items,      \* per invocation: ctuil_items
  stamp,      \* per invocation: last_updated computed by the write
  err,        \* per invocation: the exception that ended it ("" if none)
  before,     \* history: the target file when the invocation started
  old,        \* history: the target file just before this invocation
              \* opened it for writing
  seen,       \* history: the state (st) of the target file as the
              \* invocation's read found it
  peer,       \* history: another invocation ran while this one did
  \* ---- ctuil.py: _extract_items applied to one document -------------
  exDoc, exYM, exOut,
  \* ---- cerc.py: harvest_cerc_month applied to its source pages ------
  cercPages, cercYM, cercOut,
  \* ---- storage.py: the snapshot files as JSON text, and the clock -----
  stFiles,    \* CACHE_DIR: month key -> file (text)
  stEnv,      \* the instant, the host's timezone, the _IST in use
  stCall,     \* the last call of the storage API and what it returned
  stLast,     \* history: per month key, the last write_month_snapshot
  \* ---- cerc.py / ctuil.py: the date normalisers on one date ----------
  dtIn,       \* a calendar date and the target month
  dtOut,      \* what each normaliser makes of each way of writing it
  \* ---- publish_month.py: the command, one invocation after another ---
  cmdClock,   \* the wall clock the invocations read
  cmdFiles,   \* CACHE_DIR: month key -> file content
  cmd,        \* the last invocation: its command line and how it ended
  \* ---- storage.py: snapshot files under any prefix, year and month ---
  keyFiles,   \* the file system: path -> file content
  keyCall,    \* the last write_month_snapshot call and the files before it
  \* ---- schedule_refresh.py: the user's crontab ------------------------
  crontab,    \* what `crontab -l` prints
  cronCall    \* history: the calls of ensure_cron_job so far and the
              \* crontab before the first one

vars == << started, clock, files, pc, job, ym, snap, items, stamp, err, before, old,
           seen, peer, exDoc, exYM, exOut, cercPages, cercYM, cercOut,
           stFiles, stEnv, stCall, stLast, dtIn, dtOut,
           cmdClock, cmdFiles, cmd, keyFiles, keyCall, crontab, cronCall >>

runVars == << started, clock, files, pc, job, ym, snap, items, stamp, err, before,
              old, seen, peer >>
exVars == << exDoc, exYM, exOut >>
cercVars == << cercPages, cercYM, cercOut >>
storeVars == << stFiles, stEnv, stCall, stLast >>
dateVars == << dtIn, dtOut >>
cmdVars == << cmdClock, cmdFiles, cmd >>
keyVars == << keyFiles, keyCall >>
cronVars == << crontab, cronCall >>
lateVars == << cmdVars, keyVars, cronVars >>

(***************************************************************************)
(* Bounds of the model.                                                    *)
(***************************************************************************)
\* longest source document, in elements (rows and bare anchors)
MaxDoc == 2
\* invocations of the publish_month.py command, one after another
MaxCommands == 2
\* calls of write_month_snapshot under arbitrary keys, one after another
MaxKeyWrites == 2
\* most anchors of a document made of anchors
MaxLinks == 22
\* lines of the crontab before the first ensure_cron_job
MaxCronLines == 2
\* calls of ensure_cron_job
MaxCronCalls == 2
\* last tick of the wall clock
MaxClock == 2
\* invocations started, over all processes
MaxRuns == 2
\* anchors per CERC list page; CERC pages combed per harvest
MaxAnchors == 2
MaxPages == 2
\* ticks of the clock while the store is written and read
MaxStoreClock == 2
\* write_month_snapshot calls made on the store
MaxWrites == 2
\* the oldest last_updated the staleness test is given, in half hours
MaxAge == 8

Min(a, b) == IF a < b THEN a ELSE b

(***************************************************************************)
(* Calendar dates.  A date is [y, m, d]; NoDate stands for Python's None.  *)
(***************************************************************************)
NoDate == [y |-> 0, m |-> 0, d |-> 0]

IsLeap(y) == (y % 4 = 0 /\ y % 100 # 0) \/ y % 400 = 0

DaysIn(y, m) ==
  IF m \in {4, 6, 9, 11} THEN 30
  ELSE IF m = 2 THEN (IF IsLeap(y) THEN 29 ELSE 28)
  ELSE 31

\* datetime(y, m, d) raises ValueError exactly when this is false
ValidDate(y, m, d) ==
  y \in 1..9999 /\ m \in 1..12 /\ d >= 1 /\ d <= DaysIn(y, m)

\* f"{year:04d}-{month:02d}-01"
FirstOfMonth(year, month) == [y |-> year, m |-> month, d |-> 1]

\* the months a harvest is asked for: (year, month) pairs in calendar order
Targets == << <<2025, 10>>, <<2025, 11>> >>
TargetSet == {Targets[i] : i \in 1..Len(Targets)}

(***************************************************************************)
(* URLs.  An href is [form, s]: form "none" is a missing attribute / None, *)
(* "empty" is href="", "root" is a root-relative path, "abs" carries its   *)
(* own scheme and host.                                                    *)
(***************************************************************************)
CTUIL_NEWS_URL == "https://ctuil.in/latestnews"
CTUIL_ORIGIN == "https://ctuil.in"
CTUIL_SOURCE == "CTUIL"
CERC_BASE == "https://cercind.gov.in/"
CERC_ORIGIN == "https://cercind.gov.in"

HrefNone == [form |-> "none", s |-> ""]
HrefEmpty == [form |-> "empty", s |-> ""]
HrefRoot == [form |-> "root", s |-> "/files/a.pdf"]
HrefRoot2 == [form |-> "root", s |-> "/files/b.pdf"]
HrefAbs == [form |-> "abs", s |-> "https://example.org/c.pdf"]

\* urllib.parse.urljoin(base, href) for the href forms above
urljoin(base, origin, href) ==
  CASE href.form = "abs" -> href.s
    [] href.form = "root" -> origin \o href.s
    [] OTHER -> base

\* ctuil.py _mk_abs
_mk_abs(href) ==
  IF href.form \in {"none", "empty"} THEN CTUIL_NEWS_URL
  ELSE urljoin(CTUIL_NEWS_URL, CTUIL_ORIGIN, href)

(***************************************************************************)
(* ctuil.py: the source document.  A document is the sequence, in document *)
(* order, of its elements.  An element is matched by one of the row        *)
(* selectors (sel = "views": div.views-row, "ulli": ul li, "generic":      *)
(* div.card / div.row / li outside ul) or is a bare anchor (sel = "bare"). *)
(* lnk says what the element holds: "a" an anchor, "title" no anchor but   *)
(* an h3/h4/.title, "none" neither.  fmt says how the entry shows its own  *)
(* date (y, m, d): "badge" .day/.mon elements (no year shown), "text" a    *)
(* "dd Mon yyyy" text, "dotted" a dd.mm.yyyy text, "none" no date at all.  *)
(* m = 0 is a month name that _MONTHS does not know.                       *)
(***************************************************************************)
Tok(f, dd, mm, yy) == [fmt |-> f, d |-> dd, m |-> mm, y |-> yy]

DateToks ==
  { Tok("badge", 8, 10, 2025), Tok("badge", 8, 11, 2025),
    Tok("badge", 8, 10, 2024), Tok("text", 9, 10, 2025),
    Tok("dotted", 8, 9, 2025), Tok("badge", 31, 11, 2025),
    Tok("none", 0, 0, 0) }

Elem(s, l, t, h, k) ==
  [sel |-> s, lnk |-> l, title |-> t, href |-> h,
   fmt |-> k.fmt, d |-> k.d, m |-> k.m, y |-> k.y]

RowSels == {"views", "ulli", "generic"}

Elements ==
  { Elem(s, "a", "T1", HrefRoot, k) : s \in RowSels, k \in DateToks }
  \cup { Elem(s, "a", "T2", HrefRoot2, Tok("badge", 8, 10, 2025)) : s \in RowSels }
  \cup { Elem(s, "a", "T1", HrefRoot2, Tok("badge", 8, 10, 2025)) : s \in RowSels }
  \cup { Elem(s, "title", "T1", HrefNone, Tok("badge", 8, 10, 2025)) : s \in RowSels }
  \cup { Elem(s, "none", "", HrefNone, Tok("badge", 8, 10, 2025)) : s \in RowSels }
  \cup { Elem("bare", "a", t, h, Tok("none", 0, 0, 0)) :
           t \in {"T1", ""}, h \in {HrefRoot, HrefAbs, HrefEmpty} }
  \cup { Elem("bare", "a", "T1", HrefNone, Tok("none", 0, 0, 0)) }

SeqsUpTo(S, n) == UNION { [1..k -> S] : k \in 0..n }

Docs == SeqsUpTo(Elements, MaxDoc)

\* the (year, month) the entry itself is dated, <<0, 0>> when it shows none
OwnMonth(e) == << e.y, e.m >>

(***************************************************************************)
(* ctuil.py: _coerce_date, _extract_items, harvest_ctuil_month.            *)
(***************************************************************************)
UpdateItem(dt, t, u) ==
  [date |-> dt, title |-> t, url |-> u, type |-> "Update", source |-> CTUIL_SOURCE]

\* datetime(year, m, d) with m looked up in _MONTHS; None when the month is
\* unknown or the date does not exist
_coerce_date(day, mon, year) ==
  IF mon = 0 THEN NoDate
  ELSE IF ~ValidDate(year, mon, day) THEN NoDate
  ELSE [y |-> year, m |-> mon, d |-> day]

\* rows.extend(select(A)); if not rows: select(B); if not rows: select(C)
BySel(doc, s) == SelectSeq(doc, LAMBDA e : e.sel = s)

SelectRows(doc) ==
  IF BySel(doc, "views") # << >> THEN BySel(doc, "views")
  ELSE IF BySel(doc, "ulli") # << >> THEN BySel(doc, "ulli")
  ELSE BySel(doc, "generic")

\* date_iso of one row: the .day/.mon badge, else "dd Mon" sniffed from the
\* row text, both with the target year; None otherwise
RowDate(r, year) ==
  IF r.fmt \in {"badge", "text"} THEN _coerce_date(r.d, r.m, year) ELSE NoDate

\* "Fallback to first day of month if nothing found"
DateOrFirst(dt, year, month) ==
  IF dt = NoDate THEN FirstOfMonth(year, month) ELSE dt

\* a month filter that compares only the year
InTargetMonth_YearOnly(dt, year, month) == dt.y = year

\* "filter to target month": date_iso[:7] == f"{year:04d}-{month:02d}"
InTargetMonth(dt, year, month) == dt.y = year /\ dt.m = month

\* getattr(title_a, "href", None) on a bs4 Tag looks for a child element
\* named href, not for the attribute: it yields None
TagHrefAttr(r) == HrefNone

\* the items one row appends to out (none or one)
RowItems(r, year, month) ==
  IF r.lnk # "a" THEN << >>
  ELSE LET dt == DateOrFirst(RowDate(r, year), year, month)
       IN  IF InTargetMonth(dt, year, month)
           THEN << UpdateItem(dt, r.title, _mk_abs(TagHrefAttr(r))) >>
           ELSE << >>

RECURSIVE RowsOut(_, _, _)
RowsOut(rows, year, month) ==
  IF rows = << >> THEN << >>
  ELSE RowItems(Head(rows), year, month) \o RowsOut(Tail(rows), year, month)

\* a row without an anchor but with an h3/h4/.title gets a Dummy object in
\* place of the anchor; Dummy has no get_text, so the loop raises
RowsRaise(rows) == \E i \in 1..Len(rows) : rows[i].lnk = "title"

\* "keep only a manageable first page sized chunk": out[:20]
FirstPageSize == 20

\* for a in soup.select("a[href]"): every anchor of the document that has an
\* href attribute and a non-empty text, dated the first of the month
AnchorItems(e, year, month) ==
  IF e.lnk = "a" /\ e.href.form # "none" /\ e.title # ""
  THEN << UpdateItem(FirstOfMonth(year, month), e.title, _mk_abs(e.href)) >>
  ELSE << >>

RECURSIVE AnchorsOut(_, _, _)
AnchorsOut(doc, year, month) ==
  IF doc = << >> THEN << >>
  ELSE AnchorItems(Head(doc), year, month) \o AnchorsOut(Tail(doc), year, month)

\* an anchor fallback that keeps every anchor it finds
AnchorFallback_NoCut(doc, year, month) == AnchorsOut(doc, year, month)

AnchorFallback(doc, year, month) ==
  LET all == AnchorsOut(doc, year, month)
  IN  SubSeq(all, 1, Min(FirstPageSize, Len(all)))

\* "de-dup by (title, url)": the first item of each key, in order
CtuilKey(it) == << it.title, it.url >>

RECURSIVE UniqueFrom(_, _)
UniqueFrom(its, seenKeys) ==
  IF its = << >> THEN << >>
  ELSE IF CtuilKey(Head(its)) \in seenKeys
       THEN UniqueFrom(Tail(its), seenKeys)
       ELSE << Head(its) >>
            \o UniqueFrom(Tail(its), seenKeys \cup {CtuilKey(Head(its))})

Unique(out) == UniqueFrom(out, {})

\* the result of a call that may raise: ok = FALSE stands for the exception
Raised(e) == [ok |-> FALSE, exc |-> e, items |-> << >>]
Returned(its) == [ok |-> TRUE, exc |-> "", items |-> its]

_extract_items(doc, year, month) ==
  LET rows == SelectRows(doc)
      out == RowsOut(rows, year, month)
  IN  IF RowsRaise(rows) THEN Raised("AttributeError: get_text")
      ELSE IF out # << >> THEN Returned(Unique(out))
      ELSE Returned(Unique(AnchorFallback(doc, year, month)))

\* requests.get + raise_for_status, then _extract_items on the body;
\* fetched = FALSE is a NetworkError / HTTPError
harvest_ctuil_month(fetched, doc, year, month) ==
  IF ~fetched THEN Raised("RequestException") ELSE _extract_items(doc, year, month)


(***************************************************************************)
(* storage.py: the snapshot files.                                         *)
(* A file is absent, holds a whole JSON blob (st = "ok": payload and       *)
(* last_updated), or holds something json.loads rejects (st = "torn": an   *)
(* empty or partly written file).                                          *)
(* A Python dict is a function from its keys; a payload is the dict        *)
(* group -> (category -> item list).                                       *)
(***************************************************************************)
EmptyDict == [k \in {} |-> << >>]

Absent == [st |-> "absent", payload |-> EmptyDict, ts |-> 0]
Torn == [st |-> "torn", payload |-> EmptyDict, ts |-> 0]
Blob(p, t) == [st |-> "ok", payload |-> p, ts |-> t]

Digit(n) ==
  CASE n = 0 -> "0" [] n = 1 -> "1" [] n = 2 -> "2" [] n = 3 -> "3"
    [] n = 4 -> "4" [] n = 5 -> "5" [] n = 6 -> "6" [] n = 7 -> "7"
    [] n = 8 -> "8" [] OTHER -> "9"

RECURSIVE Dec(_)
Dec(n) == IF n < 10 THEN Digit(n) ELSE Dec(n \div 10) \o Digit(n % 10)

\* f"{n:04d}" and f"{n:02d}" for n >= 0: zero-padded to a minimum width
Pad04d(n) ==
  IF n >= 1000 THEN Dec(n)
  ELSE "0" \o Digit(n \div 100) \o Digit((n \div 10) % 10) \o Digit(n % 10)

Pad02d(n) == IF n >= 10 THEN Dec(n) ELSE "0" \o Digit(n)

\* CACHE_DIR / f"{prefix}_{year:04d}_{month:02d}.json"
_month_key(prefix, year, month) ==
  prefix \o "_" \o Pad04d(year) \o "_" \o Pad02d(month) \o ".json"

DefaultPrefix == "ctuil"

Paths == { _month_key(DefaultPrefix, t[1], t[2]) : t \in TargetSet }

\* read_month_snapshot: None, or the tuple (payload, last_updated)
None == [kind |-> "none", payload |-> EmptyDict, ts |-> 0]
Tuple(p, t) == [kind |-> "tuple", payload |-> p, ts |-> t]
Dict(p) == [kind |-> "dict", payload |-> p, ts |-> 0]

ReadFile(f) ==
  IF f.st = "absent" THEN None          \* not fp.exists()
  ELSE IF f.st = "torn" THEN None       \* json.loads raises: except -> None
  ELSE Tuple(f.payload, f.ts)

read_month_snapshot(fs, year, month) ==
  ReadFile(fs[_month_key(DefaultPrefix, year, month)])

\* x or {}: None is falsy, a 2-tuple is truthy
OrEmptyDict(x) == IF x.kind = "none" THEN Dict(EmptyDict) ELSE x

\* d.setdefault(k, {}) followed by the assignment [c] = v, on a dict
SetIn(d, k, v) == [x \in DOMAIN d \cup {k} |-> IF x = k THEN v ELSE d[x]]
GetOrEmpty(d, k) == IF k \in DOMAIN d THEN d[k] ELSE EmptyDict

\* snap.setdefault("central", {})["CTUIL"] = ctuil_items
MergeCtuil(payload, its) ==
  SetIn(payload, "central", SetIn(GetOrEmpty(payload, "central"), CTUIL_SOURCE, its))

\* a tuple has no setdefault: AttributeError
CanSetDefault(x) == x.kind = "dict"

\* the number of items a payload holds: what orders the lengths of two blobs
RECURSIVE SumLen(_, _)
SumLen(d, ks) ==
  IF ks = {} THEN 0
  ELSE LET k == CHOOSE x \in ks : TRUE
       IN  Len(d[k]) + SumLen(d, ks \ {k})

RECURSIVE Size(_, _)
Size(p, gs) ==
  IF gs = {} THEN 0
  ELSE LET g == CHOOSE x \in gs : TRUE
       IN  1 + SumLen(p[g], DOMAIN p[g]) + Size(p, gs \ {g})

BlobSize(p) == Size(p, DOMAIN p)

\* the file once write_text has written its text at offset 0 and closed:
\* when another writer's longer text is already there, its tail is left
\* behind the new text and the file no longer parses
Written(cur, p, t) ==
  IF cur.st = "ok" /\ BlobSize(cur.payload) > BlobSize(p) THEN Torn ELSE Blob(p, t)

(***************************************************************************)
(* The wall clock.  ist_now() reads it; its calendar month is the month of *)
(* the tick.                                                               *)
(***************************************************************************)
\* the last tick of the model falls in the next calendar month
MonthIndex(c) == IF c < MaxClock THEN 1 ELSE Len(Targets)

ist_now(c) == [year |-> Targets[MonthIndex(c)][1],
               month |-> Targets[MonthIndex(c)][2],
               t |-> c]


(***************************************************************************)
(* publish_month.py: run_scraper_job and the __main__ guard, one process   *)
(* per invocation.  The scheduler (cron, every 3 hours) starts             *)
(* invocations; nothing keeps two of them from overlapping.  A second kind *)
(* of invocation is a direct call of the exported write_month_snapshot by  *)
(* another publisher of the same snapshot.                                 *)
(* pc: "idle" -> "read" -> "harvest" -> "merge" -> "write" -> "writing"    *)
(*     -> "done" (exit 0) | "failed" (exit 1).                             *)
(***************************************************************************)
Procs == {1, 2}

Ended == {"idle", "done", "failed"}

KeyOf(p) == _month_key(DefaultPrefix, ym[p][1], ym[p][2])

\* the payload another publisher writes for a month: two categories of its
\* own, every item dated inside the month
OtherPayload(year, month) ==
  [central |->
     [CERC |-> << [type |-> "Orders", title |-> "Tariff order",
                   date |-> [y |-> year, m |-> month, d |-> 5],
                   url |-> CERC_BASE] >>,
      MNRE |-> << >>]]

\* the elements the live site's page is made of: a row dated in either
\* month, a row with a text-only title, a bare anchor
SiteElements ==
  { Elem("views", "a", "T1", HrefRoot, Tok("badge", 8, 10, 2025)),
    Elem("views", "a", "T1", HrefRoot, Tok("badge", 8, 11, 2025)),
    Elem("views", "title", "T1", HrefNone, Tok("badge", 8, 10, 2025)),
    Elem("bare", "a", "T1", HrefAbs, Tok("none", 0, 0, 0)) }

SiteDocs == SeqsUpTo(SiteElements, 1)

\* what harvest_ctuil_month can return or raise for a month, over every
\* document the site may serve and both outcomes of the request
HarvestOutcomes ==
  [t \in TargetSet |->
     { harvest_ctuil_month(f, d, t[1], t[2]) : f \in BOOLEAN, d \in SiteDocs }]

\* process slots are interchangeable: the lowest free one is taken
FreeSlot(p) == \A q \in Procs : q < p => pc[q] \notin Ended \/ job[q] # "none"

Fresh(p) ==
  /\ items' = [items EXCEPT ![p] = << >>]
  /\ stamp' = [stamp EXCEPT ![p] = 0]
  /\ err' = [err EXCEPT ![p] = ""]
  /\ old' = [old EXCEPT ![p] = Absent]
  /\ seen' = [seen EXCEPT ![p] = "absent"]
  /\ started' = started + 1
  /\ peer' = [q \in Procs |->
                IF q = p THEN \E r \in Procs \ {p} : pc[r] \notin Ended
                ELSE TRUE]

\* now = ist_now(); yyyy, mm = now.year, now.month
Start(p) ==
  /\ pc[p] \in Ended
  /\ started < MaxRuns
  /\ FreeSlot(p)
  /\ LET now == ist_now(clock)
     IN  /\ ym' = [ym EXCEPT ![p] = << now.year, now.month >>]
         /\ before' = [before EXCEPT ![p] =
                         files[_month_key(DefaultPrefix, now.year, now.month)]]
  /\ job' = [job EXCEPT ![p] = "run"]
  /\ snap' = [snap EXCEPT ![p] = None]
  /\ pc' = [pc EXCEPT ![p] = "read"]
  /\ Fresh(p)
  /\ UNCHANGED << clock, files >>

\* snap = read_month_snapshot(yyyy, mm) or {}
Read(p) ==
  /\ pc[p] = "read"
  /\ seen' = [seen EXCEPT ![p] = files[KeyOf(p)].st]
  /\ snap' = [snap EXCEPT ![p] =
                OrEmptyDict(read_month_snapshot(files, ym[p][1], ym[p][2]))]
  /\ pc' = [pc EXCEPT ![p] = "harvest"]
  /\ UNCHANGED << started, clock, files, job, ym, items, stamp, err, before, old, peer >>

\* ctuil_items = harvest_ctuil_month(yyyy, mm); an exception leaves
\* run_scraper_job and reaches the except clause of __main__: sys.exit(1)
Harvest(p) ==
  /\ pc[p] = "harvest"
  /\ \E r \in HarvestOutcomes[ym[p]] :
       IF r.ok
       THEN /\ items' = [items EXCEPT ![p] = r.items]
            /\ pc' = [pc EXCEPT ![p] = "merge"]
            /\ err' = err
       ELSE /\ items' = items
            /\ pc' = [pc EXCEPT ![p] = "failed"]
            /\ err' = [err EXCEPT ![p] = r.exc]
  /\ UNCHANGED << started, clock, files, job, ym, snap, stamp, before, old, seen, peer >>

\* snap.setdefault("central", {})["CTUIL"] = ctuil_items
Merge(p) ==
  /\ pc[p] = "merge"
  /\ IF CanSetDefault(snap[p])
     THEN /\ snap' = [snap EXCEPT ![p] = Dict(MergeCtuil(snap[p].payload, items[p]))]
          /\ pc' = [pc EXCEPT ![p] = "write"]
          /\ err' = err
     ELSE /\ snap' = snap
          /\ pc' = [pc EXCEPT ![p] = "failed"]
          /\ err' = [err EXCEPT ![p] = "AttributeError: setdefault"]
  /\ UNCHANGED << started, clock, files, job, ym, items, stamp, before, old, seen, peer >>

\* write_month_snapshot, first half: data = {"last_updated": ist_now()...};
\* write_text opens the file with mode "w", which creates or truncates it
WriteOpen(p) ==
  /\ pc[p] = "write"
  /\ stamp' = [stamp EXCEPT ![p] = ist_now(clock).t]
  /\ \/ /\ old' = [old EXCEPT ![p] = files[KeyOf(p)]]
        /\ files' = [files EXCEPT ![KeyOf(p)] = Torn]
        /\ pc' = [pc EXCEPT ![p] = "writing"]
        /\ err' = err
     \/ /\ old' = old                      \* open fails: OSError
        /\ files' = files
        /\ pc' = [pc EXCEPT ![p] = "failed"]
        /\ err' = [err EXCEPT ![p] = "OSError"]
  /\ UNCHANGED << started, clock, job, ym, snap, items, before, seen, peer >>

\* write_month_snapshot, second half: the text is written and the file
\* closed, or the write fails part-way (OSError) and the file stays as the
\* open or the partial write left it
WriteFlush(p) ==
  /\ pc[p] = "writing"
  /\ \/ /\ files' = [files EXCEPT ![KeyOf(p)] =
                       Written(files[KeyOf(p)], snap[p].payload, stamp[p])]
        /\ pc' = [pc EXCEPT ![p] = "done"]
        /\ err' = err
     \/ /\ \E f \in {files[KeyOf(p)], Torn} :
             files' = [files EXCEPT ![KeyOf(p)] = f]
        /\ pc' = [pc EXCEPT ![p] = "failed"]
        /\ err' = [err EXCEPT ![p] = "OSError"]
  /\ UNCHANGED << started, clock, job, ym, snap, items, stamp, before, old, seen, peer >>

\* another publisher calls write_month_snapshot(year, month, payload) for
\* the current month
StartWrite(p) ==
  /\ pc[p] \in Ended
  /\ started < MaxRuns
  /\ FreeSlot(p)
  /\ LET now == ist_now(clock)
     IN  /\ ym' = [ym EXCEPT ![p] = << now.year, now.month >>]
         /\ before' = [before EXCEPT ![p] =
                         files[_month_key(DefaultPrefix, now.year, now.month)]]
         /\ snap' = [snap EXCEPT ![p] = Dict(OtherPayload(now.year, now.month))]
  /\ job' = [job EXCEPT ![p] = "write"]
  /\ pc' = [pc EXCEPT ![p] = "write"]
  /\ Fresh(p)
  /\ UNCHANGED << clock, files >>

\* time passes
Tick ==
  /\ clock < MaxClock
  /\ clock' = clock + 1
  /\ UNCHANGED << started, files, pc, job, ym, snap, items, stamp, err, before, old,
                  seen, peer >>

(***************************************************************************)
(* _extract_items applied to a document; harvest_cerc_month is further     *)
(* down.                                                                   *)
(***************************************************************************)
NotCalled == [called |-> FALSE, ok |-> FALSE, exc |-> "", items |-> << >>]
Called(r) == [called |-> TRUE, ok |-> r.ok, exc |-> r.exc, items |-> r.items]

Extract ==
  /\ ~exOut.called
  /\ exOut' = Called(_extract_items(exDoc, exYM[1], exYM[2]))
  /\ UNCHANGED << exDoc, exYM >>


(***************************************************************************)
(* cerc.py: _norm_date, _collect_listpage, _dedupe, harvest_cerc_month.    *)
(* An anchor of a list page is [title, href, fmt, d, m, y]: its text, its  *)
(* href and the first date token of its context (parent text, then href);  *)
(* fmt is "dotted", "slash" or "dash" for d.m.y, d/m/y, d-m-y, "text" for  *)
(* a dd Mon yyyy text, "none" when the context shows no date.              *)
(***************************************************************************)
\* CERC_SOURCES in order, each with the type _collect_listpage gives its
\* items: "Orders" if "order" in url, else "ROP" if "rop" in url, else
\* "Draft Regulation" if "draft" in url, else "Regulation"
CERC_SOURCES ==
  << [key |-> "whats_new", type |-> "Regulation"],
     [key |-> "notices", type |-> "Regulation"],
     [key |-> "discussion", type |-> "Regulation"],
     [key |-> "working", type |-> "Regulation"],
     [key |-> "draft_reg", type |-> "Draft Regulation"],
     [key |-> "current_reg", type |-> "Regulation"],
     [key |-> "repealed_reg", type |-> "Regulation"],
     [key |-> "orders", type |-> "Orders"],
     [key |-> "rops", type |-> "ROP"] >>

\* str.lower() on the titles of the model
Lower(t) == IF t = "SOLAR tariff order" THEN "solar tariff order" ELSE t

\* RELEVANCE.search(title) on the titles of the model
Relevant(t) == t \in {"solar tariff order", "SOLAR tariff order", "wind policy"}

\* DATE_PAT: (d)[./-](m)[./-](y), y of 2 to 4 digits
NumericFmts == {"dotted", "slash", "dash"}

_norm_date(tok, fallback) ==
  IF tok.fmt \notin NumericFmts THEN fallback
  ELSE LET yy == IF tok.y < 100 THEN 2000 + tok.y ELSE tok.y
       IN  IF ValidDate(yy, tok.m, tok.d)
           THEN [y |-> yy, m |-> tok.m, d |-> tok.d]
           ELSE fallback

\* _doc_link: href = urljoin(CERC_BASE, a.get("href") or "")
_doc_link(a) ==
  << a.title,
     IF a.href.form \in {"none", "empty"} THEN CERC_BASE
     ELSE urljoin(CERC_BASE, CERC_ORIGIN, a.href) >>

CercItem(ty, t, dt, u) == [type |-> ty, title |-> t, date |-> dt, url |-> u]

\* the items one anchor of a list page appends (none or one)
ListpageItems(a, ty, year, month) ==
  LET link == _doc_link(a)
      dt == _norm_date(a, FirstOfMonth(year, month))
  IN  IF link[1] = "" \/ link[2] = "" THEN << >>
      ELSE IF ~Relevant(link[1]) THEN << >>
      ELSE IF ~(dt.y = year /\ dt.m = month) THEN << >>
      ELSE << CercItem(ty, link[1], dt, link[2]) >>

RECURSIVE ListpageOut(_, _, _, _)
ListpageOut(as, ty, year, month) ==
  IF as = << >> THEN << >>
  ELSE ListpageItems(Head(as), ty, year, month)
       \o ListpageOut(Tail(as), ty, year, month)

\* a page is [ok, type, anchors]; ok = FALSE is _req raising
_collect_listpage(page, year, month) ==
  IF ~page.ok THEN Raised("RequestException")
  ELSE Returned(ListpageOut(page.anchors, page.type, year, month))

\* sorted(out, key=date, reverse=True): a stable sort, newest date first;
\* ISO dates order as strings the way they order as numbers
DateNum(dt) == dt.y * 10000 + dt.m * 100 + dt.d

RECURSIVE InsertByDate(_, _)
InsertByDate(it, sorted) ==
  IF sorted = << >> THEN << it >>
  ELSE IF DateNum(Head(sorted).date) >= DateNum(it.date)
       THEN << Head(sorted) >> \o InsertByDate(it, Tail(sorted))
       ELSE << it >> \o sorted

RECURSIVE SortNewestFirst(_)
SortNewestFirst(its) ==
  IF its = << >> THEN << >>
  ELSE InsertByDate(its[Len(its)],
                    SortNewestFirst(SubSeq(its, 1, Len(its) - 1)))

\* key = (title.lower(), date)
CercKey(it) == << Lower(it.title), it.date >>

\* a de-duplication that lets the last item of each key survive
RECURSIVE CercUniqueFrom_KeepLast(_, _)
CercUniqueFrom_KeepLast(its, seenKeys) ==
  IF its = << >> THEN << >>
  ELSE IF \E i \in 2..Len(its) : CercKey(its[i]) = CercKey(Head(its))
       THEN CercUniqueFrom_KeepLast(Tail(its), seenKeys)
       ELSE << Head(its) >> \o CercUniqueFrom_KeepLast(Tail(its), seenKeys)

RECURSIVE CercUniqueFrom(_, _)
CercUniqueFrom(its, seenKeys) ==
  IF its = << >> THEN << >>
  ELSE IF CercKey(Head(its)) \in seenKeys
       THEN CercUniqueFrom(Tail(its), seenKeys)
       ELSE << Head(its) >>
            \o CercUniqueFrom(Tail(its), seenKeys \cup {CercKey(Head(its))})

_dedupe(its) == SortNewestFirst(CercUniqueFrom(its, {}))

\* for key, url in CERC_SOURCES.items(): try: all_items.extend(...) except:
\* continue; hearing_pdf_url is None; central_map["CERC"] = _dedupe(all_items)
RECURSIVE AllItems(_, _, _)
AllItems(pages, year, month) ==
  IF pages = << >> THEN << >>
  ELSE LET r == _collect_listpage(Head(pages), year, month)
       IN  (IF r.ok THEN r.items ELSE << >>) \o AllItems(Tail(pages), year, month)

harvest_cerc_month(pages, year, month) ==
  Returned(_dedupe(AllItems(pages, year, month)))

(***************************************************************************)
(* The CERC pages of the model: the first MaxPages sources serve at most   *)
(* MaxAnchors anchors between them, the other sources serve none.          *)
(***************************************************************************)
CercAnchor(t, h, k) ==
  [title |-> t, href |-> h, fmt |-> k.fmt, d |-> k.d, m |-> k.m, y |-> k.y]

CercAnchors ==
  { CercAnchor("solar tariff order", HrefRoot, Tok("dotted", 8, 10, 2025)),
    CercAnchor("solar tariff order", HrefRoot, Tok("dotted", 9, 10, 2025)),
    CercAnchor("SOLAR tariff order", HrefRoot2, Tok("dotted", 8, 10, 2025)),
    CercAnchor("solar tariff order", HrefRoot2, Tok("text", 8, 9, 2025)),
    CercAnchor("solar tariff order", HrefRoot2, Tok("dotted", 8, 11, 2025)),
    CercAnchor("annual report", HrefRoot2, Tok("dotted", 8, 10, 2025)),
    CercAnchor("wind policy", HrefAbs, Tok("none", 0, 0, 0)) }

PageIdx == 1..MaxPages

\* anchors tagged with the page that serves them, pages in order
TaggedAnchors ==
  { s \in SeqsUpTo(CercAnchors \X PageIdx, MaxAnchors) :
      \A i \in 1..(Len(s) - 1) : s[i][2] <= s[i + 1][2] }

RECURSIVE AnchorsOfPage(_, _)
AnchorsOfPage(s, i) ==
  IF s = << >> THEN << >>
  ELSE (IF Head(s)[2] = i THEN << Head(s)[1] >> ELSE << >>)
       \o AnchorsOfPage(Tail(s), i)

PagesOf(s, failing) ==
  [i \in PageIdx |->
     [ok |-> i \notin failing, type |-> CERC_SOURCES[i].type,
      anchors |-> AnchorsOfPage(s, i)]]

CercInputs == { PagesOf(s, failing) : s \in TaggedAnchors, failing \in SUBSET PageIdx }

HarvestCerc ==
  /\ ~cercOut.called
  /\ cercOut' = Called(harvest_cerc_month(cercPages, cercYM[1], cercYM[2]))
  /\ UNCHANGED << cercPages, cercYM >>

(***************************************************************************)
(* storage.py: json.dumps and json.loads.                                  *)
(* The content of a Python str is [iso, txt, wall, off, aware]: a plain    *)
(* text txt (iso = FALSE), or the ISO 8601 text of the wall-clock time     *)
(* wall with UTC offset off (aware) or with no offset (naive).             *)
(* A Python value is [k, s, items, map]: k = "str" (s its content), "none",*)
(* "list" and "tuple" (items the sequence of elements), "dict" (map a      *)
(* function from str keys to values).  The text of a file is the sequence  *)
(* of its JSON tokens [t, s].                                              *)
(***************************************************************************)
Text(x) == [iso |-> FALSE, txt |-> x, wall |-> 0, off |-> 0, aware |-> FALSE]
IsoText(w, o, a) == [iso |-> TRUE, txt |-> "", wall |-> w, off |-> o, aware |-> a]

PStr(c) == [k |-> "str", s |-> c, items |-> << >>, map |-> << >>]
PNone == [k |-> "none", s |-> Text(""), items |-> << >>, map |-> << >>]
PList(q) == [k |-> "list", s |-> Text(""), items |-> q, map |-> << >>]
PTuple(q) == [k |-> "tuple", s |-> Text(""), items |-> q, map |-> << >>]
PDict(f) == [k |-> "dict", s |-> Text(""), items |-> << >>, map |-> f]

Punct(c) == [t |-> "punct", s |-> Text(c)]
StrTok(c) == [t |-> "str", s |-> c]
NullTok == [t |-> "null", s |-> Text("")]

\* json.dumps: str -> string, None -> null, list and tuple -> array,
\* dict -> object with its members in the order of the dict
RECURSIVE Dumps(_), DumpsElems(_), DumpsMembers(_, _)
Dumps(x) ==
  CASE x.k = "str" -> << StrTok(x.s) >>
    [] x.k = "none" -> << NullTok >>
    [] x.k \in {"list", "tuple"} ->
         << Punct("[") >> \o DumpsElems(x.items) \o << Punct("]") >>
    [] OTHER ->
         << Punct("{") >> \o DumpsMembers(x.map, DOMAIN x.map) \o << Punct("}") >>

DumpsElems(q) ==
  IF q = << >> THEN << >>
  ELSE IF Len(q) = 1 THEN Dumps(q[1])
  ELSE Dumps(q[1]) \o << Punct(",") >> \o DumpsElems(Tail(q))

DumpsMembers(f, ks) ==
  IF ks = {} THEN << >>
  ELSE LET key == CHOOSE x \in ks : TRUE
           member == << StrTok(Text(key)), Punct(":") >> \o Dumps(f[key])
       IN  IF ks = {key} THEN member
           ELSE member \o << Punct(",") >> \o DumpsMembers(f, ks \ {key})

json_dumps(x) == Dumps(x)

\* json.loads: a parse result is [v, n], the value read and the index of
\* the token after it; array -> list, object -> dict, null -> None
IsPunct(ts, i, c) == i <= Len(ts) /\ ts[i].t = "punct" /\ ts[i].s.txt = c

RECURSIVE ParseValue(_, _), ParseElems(_, _, _), ParseMembers(_, _, _)
ParseValue(ts, i) ==
  CASE ts[i].t = "str" -> [v |-> PStr(ts[i].s), n |-> i + 1]
    [] ts[i].t = "null" -> [v |-> PNone, n |-> i + 1]
    [] IsPunct(ts, i, "[") ->
         IF IsPunct(ts, i + 1, "]") THEN [v |-> PList(<< >>), n |-> i + 2]
         ELSE ParseElems(ts, i + 1, << >>)
    [] OTHER ->
         IF IsPunct(ts, i + 1, "}") THEN [v |-> PDict(<< >>), n |-> i + 2]
         ELSE ParseMembers(ts, i + 1, << >>)

ParseElems(ts, i, acc) ==
  LET r == ParseValue(ts, i)
  IN  IF IsPunct(ts, r.n, ",") THEN ParseElems(ts, r.n + 1, Append(acc, r.v))
      ELSE [v |-> PList(Append(acc, r.v)), n |-> r.n + 1]

ParseMembers(ts, i, acc) ==
  LET r == ParseValue(ts, i + 2)
      key == ts[i].s.txt
      more == [x \in DOMAIN acc \cup {key} |-> IF x = key THEN r.v ELSE acc[x]]
  IN  IF IsPunct(ts, r.n, ",") THEN ParseMembers(ts, r.n + 1, more)
      ELSE [v |-> PDict(more), n |-> r.n + 1]

\* an empty text (a file truncated and not written) is no JSON document
json_loads(ts) ==
  IF ts = << >> THEN [ok |-> FALSE, exc |-> "JSONDecodeError", v |-> PNone]
  ELSE [ok |-> TRUE, exc |-> "", v |-> ParseValue(ts, 1).v]

(***************************************************************************)
(* storage.py: aware datetimes, the staleness test, and the snapshot file  *)
(* as JSON text.  Time is counted in half hours since an epoch; a datetime *)
(* is [wall, off, aware]: the wall-clock reading, the UTC offset of its    *)
(* tzinfo, and whether it has a tzinfo at all.  The environment env of a   *)
(* process is [utc, host, ist, writes]: the instant, the UTC offset of the *)
(* host's local timezone, which definition of _IST the import gave, and    *)
(* the number of write_month_snapshot calls made so far.                   *)
(***************************************************************************)
\* STALE_AFTER = timedelta(hours=3)
STALE_AFTER == 6

\* ZoneInfo("Asia/Kolkata"): UTC+05:30
KolkataOffset == 11

\* timezone(timedelta(hours=5, minutes=30))
FixedOffset == 11

IstDefs == {"zoneinfo", "fixed"}

_IST(ist) == IF ist = "zoneinfo" THEN KolkataOffset ELSE FixedOffset

DateTime(w, o, a) == [wall |-> w, off |-> o, aware |-> a]

\* datetime.now() with no tz: the naive local time of the host
NowHostLocal(env) == DateTime(env.utc + env.host, 0, FALSE)

\* datetime.now(tz=_IST)
IstNow(env) == DateTime(env.utc + _IST(env.ist), _IST(env.ist), TRUE)

\* the instant an aware datetime denotes
Instant(dt) == dt.wall - dt.off

isoformat(dt) == IsoText(dt.wall, dt.off, dt.aware)

\* datetime.fromisoformat: raises ValueError on a text that is no ISO time
fromisoformat(c) ==
  IF c.iso THEN [ok |-> TRUE, dt |-> DateTime(c.wall, c.off, c.aware)]
  ELSE [ok |-> FALSE, dt |-> DateTime(0, 0, FALSE)]

\* a parse that reads an unparseable text as the epoch
_parse_aware_EpochOnError(c, env) ==
  LET r == fromisoformat(c)
  IN  IF ~r.ok THEN DateTime(_IST(env.ist), _IST(env.ist), TRUE)
      ELSE IF ~r.dt.aware THEN DateTime(r.dt.wall, _IST(env.ist), TRUE)
      ELSE DateTime(Instant(r.dt) + _IST(env.ist), _IST(env.ist), TRUE)

\* _parse_aware: ist_now() on a parse error; dt.replace(tzinfo=_IST) on a
\* naive value; dt.astimezone(_IST) on an aware one
_parse_aware(c, env) ==
  LET r == fromisoformat(c)
  IN  IF ~r.ok THEN IstNow(env)
      ELSE IF ~r.dt.aware THEN DateTime(r.dt.wall, _IST(env.ist), TRUE)
      ELSE DateTime(Instant(r.dt) + _IST(env.ist), _IST(env.ist), TRUE)

\* elapsed >= threshold instead of elapsed > threshold
is_snapshot_stale_AtThreshold(c, env) ==
  Instant(IstNow(env)) - Instant(_parse_aware(c, env)) >= STALE_AFTER

\* (ist_now() - dt) > STALE_AFTER
is_snapshot_stale(c, env) ==
  Instant(IstNow(env)) - Instant(_parse_aware(c, env)) > STALE_AFTER

\* a file of CACHE_DIR as text
NoFile == [exists |-> FALSE, text |-> << >>]
FileOf(ts) == [exists |-> TRUE, text |-> ts]

\* the stamp of a write made from the host's naive local time
StampOf_HostLocal(env) == PStr(isoformat(NowHostLocal(env)))

\* "last_updated": ist_now().isoformat()
StampOf(env) == PStr(isoformat(IstNow(env)))

\* data = {"last_updated": ..., "payload": payload}; json.dumps(data, ...)
SnapshotText(payload, env) ==
  json_dumps(PDict([last_updated |-> StampOf(env), payload |-> payload]))

\* what read_month_snapshot returns: None, or (payload, last_updated)
NoSnapshot == [kind |-> "none", payload |-> PNone, ts |-> PNone]
Snapshot(p, t) == [kind |-> "tuple", payload |-> p, ts |-> t]

\* blob.get(key, default) on the loaded value; a value that is no dict has
\* no get: AttributeError, caught by the except of the read
BlobGet(blob, key, default) ==
  IF key \in DOMAIN blob.map THEN blob.map[key] ELSE default

\* a read that hands back the default payload {} whatever the file holds
ReadText_DefaultPayload(f) ==
  IF ~f.exists THEN NoSnapshot
  ELSE LET r == json_loads(f.text)
       IN  IF ~r.ok \/ r.v.k # "dict" THEN NoSnapshot
           ELSE Snapshot(PDict(<< >>), BlobGet(r.v, "last_updated", PStr(Text(""))))

\* read_month_snapshot on the text of the file
ReadText(f) ==
  IF ~f.exists THEN NoSnapshot
  ELSE LET r == json_loads(f.text)
       IN  IF ~r.ok \/ r.v.k # "dict" THEN NoSnapshot
           ELSE Snapshot(BlobGet(r.v, "payload", PDict(<< >>)),
                         BlobGet(r.v, "last_updated", PStr(Text(""))))

(***************************************************************************)
(* The storage API called in sequence by one process: write_month_snapshot *)
(* (returning, or failing with OSError), read_month_snapshot, and          *)
(* is_snapshot_stale on a last_updated text.                               *)
(***************************************************************************)
\* UTC offsets of the hosts of the model: UTC and UTC-08:00
HostOffsets == {0, 0 - 16}

\* UTC offsets a last_updated text may be written with
StampOffsets == {0, _IST("fixed"), 0 - 16}

Envs(utcs) == [utc : utcs, host : HostOffsets, ist : IstDefs, writes : {0}]

StoreItem ==
  PDict([date |-> PStr(Text("2025-10-08")), title |-> PStr(Text("T1")),
         url |-> PStr(Text("https://ctuil.in/latestnews"))])

\* the payloads handed to write_month_snapshot: dicts, a list, None, and a
\* dict holding a tuple (the only one json has no type of its own for)
StorePayloads ==
  { PDict(<< >>),
    PDict([central |-> PDict([CTUIL |-> PList(<< >>)])]),
    PDict([central |-> PDict([CTUIL |-> PList(<< StoreItem >>),
                              CERC |-> PList(<< >>)])]),
    PList(<< PNone, PStr(Text("MW")) >>),
    PNone,
    PDict([central |-> PTuple(<< PStr(Text("T1")) >>)]) }

NoCall ==
  [op |-> "none", ym |-> Targets[1], arg |-> Text(""), ret |-> NoSnapshot,
   stale |-> FALSE]

NoWrite == [done |-> FALSE, ok |-> FALSE, payload |-> PNone, stamp |-> PNone, at |-> 0]

StoreKey(t) == _month_key(DefaultPrefix, t[1], t[2])

\* write_month_snapshot returns: the file holds the text of the blob
StoreWrite ==
  \E t \in TargetSet, P \in StorePayloads :
    /\ stEnv.writes < MaxWrites
    /\ stFiles' = [stFiles EXCEPT ![StoreKey(t)] = FileOf(SnapshotText(P, stEnv))]
    /\ stLast' = [stLast EXCEPT ![StoreKey(t)] =
                    [done |-> TRUE, ok |-> TRUE, payload |-> P,
                     stamp |-> StampOf(stEnv), at |-> stEnv.utc]]
    /\ stCall' = [NoCall EXCEPT !.op = "write", !.ym = t]
    /\ stEnv' = [stEnv EXCEPT !.writes = @ + 1]

\* write_text raises OSError: on open (the file is as it was) or after the
\* open has truncated the file
StoreWriteFails ==
  \E t \in TargetSet, truncated \in BOOLEAN :
    /\ stEnv.writes < MaxWrites
    /\ stFiles' = [stFiles EXCEPT ![StoreKey(t)] =
                     IF truncated THEN FileOf(<< >>) ELSE @]
    /\ stLast' = [stLast EXCEPT ![StoreKey(t)] =
                    [NoWrite EXCEPT !.done = TRUE, !.at = stEnv.utc]]
    /\ stCall' = [NoCall EXCEPT !.op = "write", !.ym = t]
    /\ stEnv' = [stEnv EXCEPT !.writes = @ + 1]

StoreRead ==
  \E t \in TargetSet :
    /\ stCall' = [NoCall EXCEPT !.op = "read", !.ym = t,
                                !.ret = ReadText(stFiles[StoreKey(t)])]
    /\ UNCHANGED << stFiles, stEnv, stLast >>

StoreTick ==
  /\ stEnv.utc < MaxStoreClock
  /\ stEnv' = [stEnv EXCEPT !.utc = @ + 1]
  /\ UNCHANGED << stFiles, stCall, stLast >>

\* the last_updated texts given to the staleness test: the time age half
\* hours before now written with offset off, the same as a naive IST
\* reading, a text that is no timestamp, and the empty text that
\* read_month_snapshot returns for a blob without last_updated
AwareStamp(env, age, off) == IsoText(env.utc - age + off, off, TRUE)
NaiveIstStamp(env, age) == IsoText(env.utc - age + _IST(env.ist), 0, FALSE)

StaleInputs(env) ==
  { AwareStamp(env, age, off) : age \in 0..MaxAge, off \in StampOffsets }
  \cup { NaiveIstStamp(env, age) : age \in 0..MaxAge }
  \cup { Text("n/a"), Text("") }

StoreStale ==
  /\ stCall.op = "none"
  /\ \E c \in StaleInputs(stEnv) :
       stCall' = [NoCall EXCEPT !.op = "stale", !.arg = c,
                                !.stale = is_snapshot_stale(c, stEnv)]
  /\ UNCHANGED << stFiles, stEnv, stLast >>

InitStoreIdle ==
  /\ stFiles = [k \in Paths |-> NoFile]
  /\ stEnv = [utc |-> 0, host |-> 0, ist |-> "zoneinfo", writes |-> 0]
  /\ stCall = NoCall
  /\ stLast = [k \in Paths |-> NoWrite]

(***************************************************************************)
(* The date normalisers of the two adapters applied to one calendar date   *)
(* written in each form: "dotted" dd.mm.yyyy, "slash" dd/mm/yyyy, "dash"   *)
(* dd-mm-yyyy, "text" dd Mon yyyy.                                         *)
(***************************************************************************)
TokenForms == {"dotted", "slash", "dash", "text"}

DayInputs == {1, 8, 28, 29, 30, 31}
MonthInputs == {2, 9, 10, 11}
YearInputs == {2024, 2025}

\* the real calendar dates of the model, each with a target month
DateInputs ==
  { [d |-> dd, m |-> mm, y |-> yy, target |-> t] :
      dd \in DayInputs, mm \in MonthInputs, yy \in YearInputs, t \in TargetSet }
  \ { x \in [d : DayInputs, m : MonthInputs, y : YearInputs, target : TargetSet] :
        ~ValidDate(x.y, x.m, x.d) }

NotNormalised ==
  [called |-> FALSE,
   cerc |-> [f \in TokenForms |-> NoDate],
   ctuil |-> [f \in TokenForms |-> NoDate],
   cercShort |-> NoDate,
   cercDayMonth |-> NoDate,
   ctuilBadge |-> NoDate]

\* cerc.py: _norm_date(token, first of the target month);
\* ctuil.py: the date _extract_items finds in a row that shows the token
Normalise ==
  /\ ~dtOut.called
  /\ dtOut' =
       [called |-> TRUE,
        cerc |-> [f \in TokenForms |->
                    _norm_date(Tok(f, dtIn.d, dtIn.m, dtIn.y),
                               FirstOfMonth(dtIn.target[1], dtIn.target[2]))],
        ctuil |-> [f \in TokenForms |->
                     RowDate(Tok(f, dtIn.d, dtIn.m, dtIn.y), dtIn.target[1])],
        \* dd.mm.yy: the year written with two digits
        cercShort |-> _norm_date(Tok("dotted", dtIn.d, dtIn.m, dtIn.y % 100),
                                 FirstOfMonth(dtIn.target[1], dtIn.target[2])),
        \* dd.mm with no year: DATE_PAT does not match
        cercDayMonth |-> _norm_date(Tok("daymonth", dtIn.d, dtIn.m, 0),
                                    FirstOfMonth(dtIn.target[1], dtIn.target[2])),
        \* the .day/.mon badge of a row: a day and a month, no year
        ctuilBadge |-> RowDate(Tok("badge", dtIn.d, dtIn.m, 0), dtIn.target[1])]
  /\ UNCHANGED dtIn

InitDatesIdle ==
  /\ dtIn = [d |-> 1, m |-> 10, y |-> 2025, target |-> Targets[1]]
  /\ dtOut = NotNormalised

(***************************************************************************)
(* ctuil.py: documents that hold many anchors, for the anchor fallback of  *)
(* _extract_items.  A document is n anchors in a row, after the shape of   *)
(* its pattern: "distinct" all titles differ; "pairs" every anchor occurs  *)
(* twice in a row; "blank" the first anchor has no text; "nohref" the      *)
(* second anchor has no href attribute; "row" the first anchor stands in a *)
(* views row dated in another month than either target.                   *)
(***************************************************************************)
LinkPatterns == {"distinct", "pairs", "blank", "nohref", "row"}

LinkTitle(i) == "L" \o Dec(i)

LinkAt(pat, i) ==
  CASE pat = "pairs" ->
         Elem("bare", "a", LinkTitle((i + 1) \div 2), HrefRoot, Tok("none", 0, 0, 0))
    [] pat = "blank" /\ i = 1 ->
         Elem("bare", "a", "", HrefRoot, Tok("none", 0, 0, 0))
    [] pat = "nohref" /\ i = 2 ->
         Elem("bare", "a", LinkTitle(i), HrefNone, Tok("none", 0, 0, 0))
    [] pat = "row" /\ i = 1 ->
         Elem("views", "a", LinkTitle(i), HrefAbs, Tok("badge", 8, 9, 2025))
    [] OTHER ->
         Elem("bare", "a", LinkTitle(i), HrefAbs, Tok("none", 0, 0, 0))

LinkDoc(pat, n) == [i \in 1..n |-> LinkAt(pat, i)]

LinkDocs == { LinkDoc(pat, n) : pat \in LinkPatterns, n \in 0..MaxLinks }

(***************************************************************************)
(* publish_month.py as a command: `python publish_month.py [args...]`,     *)
(* one invocation after another (no overlap), each run to its exit.        *)
(***************************************************************************)
\* the command lines of the model: sys.argv[1:]
Argvs ==
  { << >>,
    << "2025", "10" >>,
    << "2025", "11" >>,
    << "2025", "13" >>,
    << "2025" >>,
    << "x", "10" >> }

NotRun == [n |-> 0, argv |-> << >>, exit |-> 0, key |-> "",
           before |-> [k \in Paths |-> Absent], items |-> << >>]

\* how one invocation ends: the exit status of the process and the file
\* it leaves under its month key
Exit(n, argv, status, key, fs, its) ==
  [n |-> n, argv |-> argv, exit |-> status, key |-> key, before |-> fs,
   items |-> its]

\* __main__: CACHE_DIR.mkdir; run_scraper_job(); except Exception: exit(1).
\* run_scraper_job: now = ist_now(); yyyy, mm = now.year, now.month;
\* snap = read_month_snapshot(yyyy, mm) or {}; harvest; merge; write.
\* sys.argv is not read anywhere.
Command ==
  /\ cmd.n < MaxCommands
  /\ \E argv \in Argvs :
       LET now == ist_now(cmdClock)
           key == _month_key(DefaultPrefix, now.year, now.month)
           snap0 == OrEmptyDict(read_month_snapshot(cmdFiles, now.year, now.month))
       IN  \E r \in HarvestOutcomes[<< now.year, now.month >>] :
             IF ~r.ok
             THEN /\ cmd' = Exit(cmd.n + 1, argv, 1, key, cmdFiles, << >>)
                  /\ cmdFiles' = cmdFiles
             ELSE IF ~CanSetDefault(snap0)
             THEN /\ cmd' = Exit(cmd.n + 1, argv, 1, key, cmdFiles, r.items)
                  /\ cmdFiles' = cmdFiles
             ELSE \/ /\ cmd' = Exit(cmd.n + 1, argv, 0, key, cmdFiles, r.items)
                     /\ cmdFiles' =
                          [cmdFiles EXCEPT ![key] =
                             Written(Torn, MergeCtuil(snap0.payload, r.items), now.t)]
                  \/ /\ cmd' = Exit(cmd.n + 1, argv, 1, key, cmdFiles, r.items)
                     /\ \E f \in {cmdFiles[key], Torn} :
                          cmdFiles' = [cmdFiles EXCEPT ![key] = f]
  /\ UNCHANGED cmdClock

InitCmdIdle ==
  /\ cmdClock = 1
  /\ cmdFiles = [k \in Paths |-> Absent]
  /\ cmd = NotRun

(***************************************************************************)
(* storage.py: _month_key and the files it names.  A path is the sequence  *)
(* of its components; a prefix is given as the components that "/" splits  *)
(* it into, the last one being the start of the file name.                 *)
(***************************************************************************)
\* CACHE_DIR = Path("data") / "cache"
CACHE_DIR == << "data", "cache" >>

\* pathlib: dir / name parses name into components; empty components and
\* "." components are dropped
PathJoin(dir, comps) == dir \o SelectSeq(comps, LAMBDA c : c \notin {"", "."})

\* CACHE_DIR / f"{prefix}_{year:04d}_{month:02d}.json" for a prefix of one
\* or more components
MonthPath(prefix, year, month) ==
  PathJoin(CACHE_DIR,
           SubSeq(prefix, 1, Len(prefix) - 1)
           \o << _month_key(prefix[Len(prefix)], year, month) >>)

\* the prefixes, years and months of the model
KeyPrefixes == { << "ctuil" >>, << "cerc" >>, << ".", "ctuil" >>, << "ctuil_2025" >> }
KeyYears == {10, 2025}
KeyMonths == {1, 10}
KeyTriples == KeyPrefixes \X KeyYears \X KeyMonths

PathOf(k) == MonthPath(k[1], k[2], k[3])

KeyPaths == { PathOf(k) : k \in KeyTriples }

\* the payloads written
KeyPayloads == { EmptyDict, MergeCtuil(EmptyDict, << >>) }

NoKeyCall == [n |-> 0, key |-> << << "ctuil" >>, 2025, 10 >>,
              before |-> [f \in KeyPaths |-> Absent]]

\* write_month_snapshot(year, month, payload, prefix), returning
KeyWrite ==
  /\ keyCall.n < MaxKeyWrites
  /\ \E k \in KeyTriples, P \in KeyPayloads :
       /\ keyFiles' = [keyFiles EXCEPT ![PathOf(k)] = Blob(P, keyCall.n + 1)]
       /\ keyCall' = [n |-> keyCall.n + 1, key |-> k, before |-> keyFiles]

\* read_month_snapshot(year, month, prefix) on a file system
ReadKey(fs, k) == ReadFile(fs[PathOf(k)])

InitKeysIdle ==
  /\ keyFiles = [f \in KeyPaths |-> Absent]
  /\ keyCall = NoKeyCall

(***************************************************************************)
(* schedule_refresh.py: ensure_cron_job and the user's crontab.            *)
(* A crontab text is the sequence of its lines and whether it ends with a  *)
(* newline; exists = FALSE is a user without a crontab (`crontab -l` exits *)
(* non-zero).  A line is the sequence of the pieces it is written from, so *)
(* that the substring tests of the code are tests on pieces: the marker    *)
(* name, the script name and the run of pieces that makes up cron_line.    *)
(***************************************************************************)
TASK_NAME == "NSEFI_CERC_Oct2025_3h"
SCRIPT == "publish_month.py"

\* f'0 */3 * * * {python} {PROJECT_ROOT / "publish_month.py"} >/dev/null 2>&1'
cron_line == << "0 */3 * * * ", "/usr/bin/python3 ", "/srv/nsefi/", SCRIPT, " >/dev/null 2>&1" >>

\* f"# {TASK_NAME}"
MarkerLine == << "# ", TASK_NAME >>

\* lines a crontab may hold before the first call: an hourly entry for the
\* same script written by hand, two entries of other jobs, an empty line
OldEntry == << "0 * * * * ", "python ", "/srv/nsefi/", SCRIPT >>
BackupLine == << "30 2 * * * ", "/usr/bin/backup" >>
MailtoLine == << "MAILTO=ops" >>
BlankLine == << >>

CronLines == { cron_line, MarkerLine, OldEntry, BackupLine, MailtoLine, BlankLine }

\* needle in ln, for a needle that is one piece
HasPiece(ln, piece) == \E i \in 1..Len(ln) : ln[i] = piece

\* needle in ln, for a needle that is a run of pieces
HasRun(ln, run) ==
  \E i \in 0..(Len(ln) - Len(run)) : SubSeq(ln, i + 1, i + Len(run)) = run

\* needle in existing: neither needle holds a newline, so each is found
\* inside one line
InText(lines, Test(_)) == \E i \in 1..Len(lines) : Test(lines[i])

NoCrontab == [exists |-> FALSE, lines |-> << >>, nl |-> FALSE]
CrontabText(ls, endsNl) == [exists |-> TRUE, lines |-> ls, nl |-> endsNl]

\* the texts: "" has no line; a text that does not end with a newline has
\* a non-empty last line
IsText(ls, endsNl) ==
  IF ls = << >> THEN ~endsNl ELSE endsNl \/ ls[Len(ls)] # BlankLine

Crontabs ==
  {NoCrontab}
  \cup { CrontabText(p[1], p[2]) :
           p \in { q \in SeqsUpTo(CronLines, MaxCronLines) \X BOOLEAN :
                     IsText(q[1], q[2]) } }

\* the crontab ensure_cron_job hands to `crontab -`
NewCrontab(cur) ==
  LET existing == IF cur.exists THEN cur.lines ELSE << >>
      Marked(ln) == HasPiece(ln, TASK_NAME)
      IsJob(ln) == HasRun(ln, cron_line)
      Dropped(ln) == HasPiece(ln, TASK_NAME) \/ HasPiece(ln, SCRIPT)
  IN  IF InText(existing, Marked) \/ InText(existing, IsJob)
      THEN \* replace old lines; blank lines are left out of the join
           CrontabText(
             SelectSeq(SelectSeq(existing, LAMBDA ln : ~Dropped(ln))
                         \o << MarkerLine, cron_line >>,
                       LAMBDA ln : ln # BlankLine),
             TRUE)
      ELSE \* existing + ("" if existing.endswith("\n") else "\n") + the
           \* two lines: an empty existing text gives a leading empty line
           CrontabText(
             existing \o (IF existing = << >> THEN << BlankLine >> ELSE << >>)
                      \o << MarkerLine, cron_line >>,
             TRUE)

NoCronCall == [n |-> 0, first |-> NoCrontab, failed |-> 0]

\* ensure_cron_job returning: `crontab -l`, the new text, `crontab -`
EnsureCronJob ==
  /\ cronCall.n + cronCall.failed < MaxCronCalls
  /\ crontab' = NewCrontab(crontab)
  /\ cronCall' = [cronCall EXCEPT !.n = cronCall.n + 1]

\* ensure_cron_job raising RuntimeError: `crontab` is not installed, or
\* `crontab -` exits non-zero; the crontab stays as it is
EnsureCronJobFails ==
  /\ cronCall.n + cronCall.failed < MaxCronCalls
  /\ crontab' = crontab
  /\ cronCall' = [cronCall EXCEPT !.failed = cronCall.failed + 1]

InitCronIdle ==
  /\ crontab = NoCrontab
  /\ cronCall = NoCronCall

InitLateIdle == InitCmdIdle /\ InitKeysIdle /\ InitCronIdle

(***************************************************************************)
(* Specifications.                                                         *)
(***************************************************************************)
InitRun ==
  /\ started = 0
  /\ clock = 1
  /\ files = [k \in Paths |-> Absent]
  /\ pc = [p \in Procs |-> "idle"]
  /\ job = [p \in Procs |-> "none"]
  /\ ym = [p \in Procs |-> Targets[1]]
  /\ snap = [p \in Procs |-> None]
  /\ items = [p \in Procs |-> << >>]
  /\ stamp = [p \in Procs |-> 0]
  /\ err = [p \in Procs |-> ""]
  /\ before = [p \in Procs |-> Absent]
  /\ old = [p \in Procs |-> Absent]
  /\ seen = [p \in Procs |-> "absent"]
  /\ peer = [p \in Procs |-> FALSE]

InitEx ==
  /\ exDoc = << >>
  /\ exYM = Targets[1]
  /\ exOut = NotCalled

InitCerc ==
  /\ cercPages = << >>
  /\ cercYM = Targets[1]
  /\ cercOut = NotCalled

\* the scheduled job and the snapshot store
Init == InitRun /\ InitLateIdle /\ InitEx /\ InitCerc /\ InitStoreIdle /\ InitDatesIdle

Next ==
  \/ \E p \in Procs : Start(p) /\ UNCHANGED << exVars, cercVars, storeVars, dateVars, lateVars >>
  \/ \E p \in Procs : Read(p) /\ UNCHANGED << exVars, cercVars, storeVars, dateVars, lateVars >>
  \/ \E p \in Procs : Harvest(p) /\ UNCHANGED << exVars, cercVars, storeVars, dateVars, lateVars >>
  \/ \E p \in Procs : Merge(p) /\ UNCHANGED << exVars, cercVars, storeVars, dateVars, lateVars >>
  \/ \E p \in Procs : WriteOpen(p) /\ UNCHANGED << exVars, cercVars, storeVars, dateVars, lateVars >>
  \/ \E p \in Procs : WriteFlush(p) /\ UNCHANGED << exVars, cercVars, storeVars, dateVars, lateVars >>
  \/ \E p \in Procs : StartWrite(p) /\ UNCHANGED << exVars, cercVars, storeVars, dateVars, lateVars >>
  \/ Tick /\ UNCHANGED << exVars, cercVars, storeVars, dateVars, lateVars >>

Spec == Init /\ [][Next]_vars

\* _extract_items over every document and target month of the bounds
InitExtract ==
  /\ InitRun /\ InitLateIdle /\ InitCerc /\ InitStoreIdle /\ InitDatesIdle
  /\ exDoc \in Docs
  /\ exYM \in TargetSet
  /\ exOut = NotCalled

NextExtract == Extract /\ UNCHANGED << runVars, cercVars, storeVars, dateVars, lateVars >>

SpecExtract == InitExtract /\ [][NextExtract]_vars

\* harvest_cerc_month over every set of pages and target month of the bounds
InitCercHarvest ==
  /\ InitRun /\ InitLateIdle /\ InitEx /\ InitStoreIdle /\ InitDatesIdle
  /\ cercPages \in CercInputs
  /\ cercYM \in TargetSet
  /\ cercOut = NotCalled

NextCerc == HarvestCerc /\ UNCHANGED << runVars, exVars, storeVars, dateVars, lateVars >>

SpecCerc == InitCercHarvest /\ [][NextCerc]_vars

\* the storage API on every host timezone and _IST definition
InitStore ==
  /\ InitRun /\ InitLateIdle /\ InitEx /\ InitCerc /\ InitDatesIdle
  /\ stFiles = [k \in Paths |-> NoFile]
  /\ stEnv \in Envs({0})
  /\ stCall = NoCall
  /\ stLast = [k \in Paths |-> NoWrite]

NextStore ==
  \/ StoreWrite /\ UNCHANGED << runVars, exVars, cercVars, dateVars, lateVars >>
  \/ StoreWriteFails /\ UNCHANGED << runVars, exVars, cercVars, dateVars, lateVars >>
  \/ StoreRead /\ UNCHANGED << runVars, exVars, cercVars, dateVars, lateVars >>
  \/ StoreTick /\ UNCHANGED << runVars, exVars, cercVars, dateVars, lateVars >>

SpecStore == InitStore /\ [][NextStore]_vars

\* is_snapshot_stale on every last_updated text of the bounds
InitStale ==
  /\ InitRun /\ InitLateIdle /\ InitEx /\ InitCerc /\ InitDatesIdle
  /\ stFiles = [k \in Paths |-> NoFile]
  /\ stEnv \in Envs({MaxAge, MaxAge + 1})
  /\ stCall = NoCall
  /\ stLast = [k \in Paths |-> NoWrite]

NextStale == StoreStale /\ UNCHANGED << runVars, exVars, cercVars, dateVars, lateVars >>

SpecStale == InitStale /\ [][NextStale]_vars

\* the date normalisers on every date and target month of the bounds
InitDates ==
  /\ InitRun /\ InitLateIdle /\ InitEx /\ InitCerc /\ InitStoreIdle
  /\ dtIn \in DateInputs
  /\ dtOut = NotNormalised

NextDates == Normalise /\ UNCHANGED << runVars, exVars, cercVars, storeVars, lateVars >>

SpecDates == InitDates /\ [][NextDates]_vars

\* the publish_month.py command on every command line of the bounds, in
\* either month of the clock
InitCommand ==
  /\ InitRun /\ InitEx /\ InitCerc /\ InitStoreIdle /\ InitDatesIdle
  /\ InitKeysIdle /\ InitCronIdle
  /\ cmdClock \in 1..MaxClock
  /\ cmdFiles = [k \in Paths |-> Absent]
  /\ cmd = NotRun

NextCommand ==
  Command /\ UNCHANGED << runVars, exVars, cercVars, storeVars, dateVars, keyVars, cronVars >>

SpecCommand == InitCommand /\ [][NextCommand]_vars

\* _extract_items over documents of many anchors
InitAnchors ==
  /\ InitRun /\ InitLateIdle /\ InitCerc /\ InitStoreIdle /\ InitDatesIdle
  /\ exDoc \in LinkDocs
  /\ exYM \in TargetSet
  /\ exOut = NotCalled

SpecAnchors == InitAnchors /\ [][NextExtract]_vars

\* write_month_snapshot under every prefix, year and month of the bounds
InitKeys ==
  /\ InitRun /\ InitEx /\ InitCerc /\ InitStoreIdle /\ InitDatesIdle
  /\ InitCmdIdle /\ InitCronIdle
  /\ keyFiles = [f \in KeyPaths |-> Absent]
  /\ keyCall = NoKeyCall

NextKeys ==
  KeyWrite /\ UNCHANGED << runVars, exVars, cercVars, storeVars, dateVars, cmdVars, cronVars >>

SpecKeys == InitKeys /\ [][NextKeys]_vars

\* ensure_cron_job called again and again on every crontab of the bounds
InitCron ==
  /\ InitRun /\ InitEx /\ InitCerc /\ InitStoreIdle /\ InitDatesIdle
  /\ InitCmdIdle /\ InitKeysIdle
  /\ crontab \in Crontabs
  /\ cronCall = [NoCronCall EXCEPT !.first = crontab]

NextCron ==
  \/ EnsureCronJob
       /\ UNCHANGED << runVars, exVars, cercVars, storeVars, dateVars, cmdVars, keyVars >>
  \/ EnsureCronJobFails
       /\ UNCHANGED << runVars, exVars, cercVars, storeVars, dateVars, cmdVars, keyVars >>

SpecCron == InitCron /\ [][NextCron]_vars


(***************************************************************************)
(* Properties of the harvest job and the snapshot store (Spec).            *)
(***************************************************************************)
\* failures that come from outside the job: the request, the disk, and a
\* page the extractor cannot take
OutsideErrors == {"RequestException", "OSError", "AttributeError: get_text"}

\* the categories of a payload, as (group, category) pairs
Cats(payload) ==
  UNION { { << g, c >> : c \in DOMAIN payload[g] } : g \in DOMAIN payload }

HasCat(payload, g, c) == g \in DOMAIN payload /\ c \in DOMAIN payload[g]

\* the payload one run alone leaves in an empty cache
SingleRunPayload(its) == [central |-> [CTUIL |-> its]]

\* an invocation of the job that has ended without an outside failure
RunEnded(p) ==
  /\ job[p] = "run"
  /\ pc[p] \in {"done", "failed"}
  /\ err[p] \notin OutsideErrors

\* C1: a run that finds a snapshot with several categories completes, and
\* the file then holds the harvested list under central/CTUIL, the time of
\* this write as last_updated, and every other category as it was.
C1_MergeIntoExistingSnapshot ==
  \A p \in Procs :
    (RunEnded(p) /\ ~peer[p] /\ before[p].st = "ok"
       /\ Cardinality(Cats(before[p].payload)) >= 2)
    => /\ pc[p] = "done"
       /\ LET f == files[KeyOf(p)]
          IN  /\ f.st = "ok"
              /\ f.ts = stamp[p]
              /\ HasCat(f.payload, "central", CTUIL_SOURCE)
              /\ f.payload["central"][CTUIL_SOURCE] = items[p]
              /\ \A gc \in Cats(before[p].payload) :
                   gc # << "central", CTUIL_SOURCE >>
                   => /\ HasCat(f.payload, gc[1], gc[2])
                      /\ f.payload[gc[1]][gc[2]] = before[p].payload[gc[1]][gc[2]]

\* C2: a run that follows a run of the same month, and harvests the same
\* items from the unchanged page, succeeds too and leaves the payload the
\* first run persisted.
C2_RerunIsIdempotent ==
  \A p \in Procs :
    (RunEnded(p) /\ ~peer[p] /\ before[p].st = "ok"
       /\ before[p].payload = SingleRunPayload(items[p]))
    => /\ pc[p] = "done"
       /\ files[KeyOf(p)].st = "ok"
       /\ files[KeyOf(p)].payload = before[p].payload

\* C3: while a write replaces an existing snapshot, a read of that month
\* returns the whole prior content or the whole new content.
C3_ReadDuringOverwrite ==
  \A p \in Procs :
    (pc[p] = "writing" /\ old[p].st = "ok")
    => ReadFile(files[KeyOf(p)]) \in
         { ReadFile(old[p]), Tuple(snap[p].payload, stamp[p]) }

\* C4: two runs of the same month that overlap, harvesting the same items,
\* both complete, and the file holds what one run alone would have left.
C4_OverlappingRunsBothComplete ==
  \A p, q \in Procs :
    (p # q /\ RunEnded(p) /\ RunEnded(q) /\ peer[p] /\ peer[q]
       /\ ym[p] = ym[q] /\ items[p] = items[q]
       /\ before[p].st = "absent" /\ before[q].st = "absent")
    => /\ pc[p] = "done"
       /\ pc[q] = "done"
       /\ files[KeyOf(p)].st = "ok"
       /\ files[KeyOf(p)].payload = SingleRunPayload(items[p])

\* C5: when a run has ended in failure (exit 1), whatever failed, the file
\* of its month is as it was when the run started.
C5_FailedRunLeavesSnapshot ==
  \A p \in Procs :
    (job[p] = "run" /\ pc[p] = "failed" /\ ~peer[p])
    => files[KeyOf(p)] = before[p]

\* C6: a run whose read found the file present but unreadable performs no
\* write and does not exit 0.
C6_UnreadableSnapshotIsFatal ==
  \A p \in Procs :
    (job[p] = "run" /\ seen[p] = "torn")
    => pc[p] \notin {"writing", "done"}

\* C7: no run is aborted by the failure of a source (its request failing,
\* its page not being extractable): the run goes on to merge and persist.
C7_SourceFailureDoesNotAbort ==
  \A p \in Procs :
    ~ ( /\ job[p] = "run"
        /\ pc[p] = "failed"
        /\ err[p] \in {"RequestException", "AttributeError: get_text"} )

\* C8: every item of every category list of the snapshot of a month is
\* dated in that month.
C8_ItemsDatedInKeyMonth ==
  \A t \in TargetSet :
    LET f == files[_month_key(DefaultPrefix, t[1], t[2])]
    IN  f.st = "ok"
        => \A gc \in Cats(f.payload) :
             \A i \in 1..Len(f.payload[gc[1]][gc[2]]) :
               /\ f.payload[gc[1]][gc[2]][i].date.y = t[1]
               /\ f.payload[gc[1]][gc[2]][i].date.m = t[2]

\* C8 witness: runs have persisted harvested items for both months
C8_Witness ==
  \A t \in TargetSet :
    LET f == files[_month_key(DefaultPrefix, t[1], t[2])]
    IN  /\ f.st = "ok"
        /\ HasCat(f.payload, "central", CTUIL_SOURCE)
        /\ f.payload["central"][CTUIL_SOURCE] # << >>


(***************************************************************************)
(* Properties of the extraction (SpecExtract) and of the CERC harvest      *)
(* (SpecCerc).                                                             *)
(***************************************************************************)
\* an entry that shows a real calendar date of a month other than the target
DatedOffMonth(e, t) ==
  /\ e.fmt # "none"
  /\ ValidDate(e.y, e.m, e.d)
  /\ << e.y, e.m >> # t

\* C9: every extracted item comes from an entry that is not dated in a month
\* other than the target: an entry dated in another month contributes
\* nothing, by no strategy and under no substituted date.
C9_NoItemFromOffMonthEntry ==
  (exOut.called /\ exOut.ok)
  => \A i \in 1..Len(exOut.items) :
       \E j \in 1..Len(exDoc) :
         /\ exDoc[j].lnk = "a"
         /\ exDoc[j].title = exOut.items[i].title
         /\ ~DatedOffMonth(exDoc[j], exYM)

\* the (title, url) pairs of a list, each at most once
NoDupPairs(its) ==
  \A i, j \in 1..Len(its) :
    (its[i].title = its[j].title /\ its[i].url = its[j].url) => i = j

\* C10: the category list a harvest produces holds each (title, url) pair
\* at most once (here: the CERC list, _dedupe over the items of all pages).
C10_CercPairsUnique ==
  cercOut.called => NoDupPairs(cercOut.items)

\* C10, the CTUIL half: _extract_items returns each (title, url) pair once.
CtuilPairsUnique ==
  exOut.called => NoDupPairs(exOut.items)

(***************************************************************************)
(* Order of the produced lists.                                            *)
(***************************************************************************)
\* the titles of the model in ascending case-sensitive lexicographic order
\* (upper-case letters and digits sort before lower-case letters)
TitleOrder ==
  << "", "SOLAR tariff order", "T1", "T2", "annual report",
     "solar tariff order", "wind policy" >>

TitleRank(t) == CHOOSE i \in 1..Len(TitleOrder) : TitleOrder[i] = t

\* date descending, and title descending among equal dates
Ordered(its) ==
  \A i \in 1..(Len(its) - 1) :
    \/ DateNum(its[i].date) > DateNum(its[i + 1].date)
    \/ /\ its[i].date = its[i + 1].date
       /\ TitleRank(its[i].title) >= TitleRank(its[i + 1].title)

\* C11: the list an extraction returns is ordered by date descending and,
\* among equal dates, by title descending, whatever the order of the rows
\* in the document.
C11_ExtractedListOrdered ==
  (exOut.called /\ exOut.ok) => Ordered(exOut.items)

\* C11, the CERC half: the list _dedupe returns is ordered the same way.
CercListOrdered ==
  cercOut.called => Ordered(cercOut.items)

\* the CERC list is ordered by date descending (ties in any order)
CercListDateDescending ==
  cercOut.called
  => \A i \in 1..(Len(cercOut.items) - 1) :
       DateNum(cercOut.items[i].date) >= DateNum(cercOut.items[i + 1].date)

(***************************************************************************)
(* Rows whose date cannot be parsed.                                       *)
(***************************************************************************)
\* an entry that shows a date naming a real calendar day
HasRealDate(e) == e.fmt # "none" /\ ValidDate(e.y, e.m, e.d)

\* C12: every extracted item comes from an entry that shows a real calendar
\* date: a row with no date, or with a date that is no calendar day,
\* contributes nothing and is given no substituted date.
C12_NoItemWithoutParsedDate ==
  (exOut.called /\ exOut.ok)
  => \A i \in 1..Len(exOut.items) :
       \E j \in 1..Len(exDoc) :
         /\ exDoc[j].lnk = "a"
         /\ exDoc[j].title = exOut.items[i].title
         /\ HasRealDate(exDoc[j])

\* C12, the CERC half: every harvested item comes from an anchor whose
\* context shows a date in one of the numeric or textual forms.
CercNoItemWithoutParsedDate ==
  cercOut.called
  => \A i \in 1..Len(cercOut.items) :
       \E p \in 1..Len(cercPages) :
         \E j \in 1..Len(cercPages[p].anchors) :
           /\ cercPages[p].anchors[j].title = cercOut.items[i].title
           /\ HasRealDate(cercPages[p].anchors[j])
           /\ cercPages[p].anchors[j].m = cercOut.items[i].date.m

(***************************************************************************)
(* Rows without a hyperlink.                                               *)
(***************************************************************************)
\* the document holds a candidate row with no anchor
HasLinklessRow(doc) ==
  \E j \in 1..Len(doc) : doc[j].sel \in RowSels /\ doc[j].lnk # "a"

\* C13: on a document with a row that has no hyperlink, the extraction does
\* not fail, the link-less row yields nothing, and every row with a link
\* and a date of the target month is still extracted.
C13_LinklessRowIsSkipped ==
  (exOut.called /\ HasLinklessRow(exDoc))
  => /\ exOut.ok
     /\ \A j \in 1..Len(exDoc) :
          (exDoc[j].sel \in RowSels /\ exDoc[j].lnk # "a" /\ exDoc[j].title # "")
          => \A i \in 1..Len(exOut.items) :
               exOut.items[i].title = exDoc[j].title
               => \E k \in 1..Len(exDoc) :
                    exDoc[k].lnk = "a" /\ exDoc[k].title = exDoc[j].title
     /\ \A j \in 1..Len(SelectRows(exDoc)) :
          RowItems(SelectRows(exDoc)[j], exYM[1], exYM[2]) # << >>
          => \E i \in 1..Len(exOut.items) :
               exOut.items[i].title = SelectRows(exDoc)[j].title

(***************************************************************************)
(* The chain of extraction strategies.                                     *)
(***************************************************************************)
\* what one row strategy alone yields for the target month
StrategyOut(doc, s, year, month) == Unique(RowsOut(BySel(doc, s), year, month))

\* the output of the first strategy, in the order views rows, list items,
\* generic containers, bare anchors, that yields something
FirstNonEmptyStrategy(doc, year, month) ==
  IF StrategyOut(doc, "views", year, month) # << >>
  THEN StrategyOut(doc, "views", year, month)
  ELSE IF StrategyOut(doc, "ulli", year, month) # << >>
  THEN StrategyOut(doc, "ulli", year, month)
  ELSE IF StrategyOut(doc, "generic", year, month) # << >>
  THEN StrategyOut(doc, "generic", year, month)
  ELSE Unique(AnchorFallback(doc, year, month))

\* C14: the result of an extraction is the output of the first strategy, in
\* the fixed order, whose candidates for the target month are not empty.
C14_FirstNonEmptyStrategyWins ==
  (exOut.called /\ exOut.ok)
  => exOut.items = FirstNonEmptyStrategy(exDoc, exYM[1], exYM[2])

\* C14, read on the rows a selector matches: the bare anchors are consulted
\* only when no row selector matched any row.
AnchorsOnlyWithoutRows ==
  (exOut.called /\ exOut.ok /\ SelectRows(exDoc) # << >>)
  => exOut.items = Unique(RowsOut(SelectRows(exDoc), exYM[1], exYM[2]))

(***************************************************************************)
(* N well-formed rows give N items.                                        *)
(***************************************************************************)
\* a row with a titled link to a document and a date of the target month
WellFormedRow(e, t) ==
  /\ e.sel = "views"
  /\ e.lnk = "a"
  /\ e.title # ""
  /\ e.href.form \in {"root", "abs"}
  /\ HasRealDate(e)
  /\ OwnMonth(e) = t

\* a document of well-formed rows with pairwise distinct (title, url)
WellFormedDoc(doc, t) ==
  /\ doc # << >>
  /\ \A j \in 1..Len(doc) : WellFormedRow(doc[j], t)
  /\ \A j, k \in 1..Len(doc) :
       (doc[j].title = doc[k].title /\ _mk_abs(doc[j].href) = _mk_abs(doc[k].href))
       => j = k

\* C15: a document of N well-formed rows with distinct (title, url) pairs
\* and dates of the target month gives exactly N items, the i-th carrying
\* the title and the resolved absolute url of the i-th row's link.
C15_NRowsGiveNItems ==
  (exOut.called /\ WellFormedDoc(exDoc, exYM))
  => /\ exOut.ok
     /\ Len(exOut.items) = Len(exDoc)
     /\ \A i \in 1..Len(exOut.items) :
          /\ exOut.items[i].title = exDoc[i].title
          /\ exOut.items[i].url = _mk_abs(exDoc[i].href)

\* C15, the count alone: N such rows give N items.
NRowsGiveNItemsCount ==
  (exOut.called /\ WellFormedDoc(exDoc, exYM))
  => exOut.ok /\ Len(exOut.items) = Len(exDoc)

(***************************************************************************)
(* Properties of the storage API (SpecStore, SpecStale).                   *)
(***************************************************************************)
\* a value made of JSON's own types: str, null, list, dict with str keys
RECURSIVE JsonRepresentable(_)
JsonRepresentable(x) ==
  CASE x.k \in {"str", "none"} -> TRUE
    [] x.k = "list" -> \A i \in 1..Len(x.items) : JsonRepresentable(x.items[i])
    [] x.k = "dict" -> \A key \in DOMAIN x.map : JsonRepresentable(x.map[key])
    [] OTHER -> FALSE

\* the last call was a read of a month whose last write returned
ReadAfterWrite ==
  /\ stCall.op = "read"
  /\ stLast[StoreKey(stCall.ym)].done
  /\ stLast[StoreKey(stCall.ym)].ok

\* C16: a read that follows a write of the JSON-representable payload P to
\* the same month returns a payload equal to P and the last_updated text
\* that write stamped.
C16_WriteThenReadRoundTrip ==
  (ReadAfterWrite /\ JsonRepresentable(stLast[StoreKey(stCall.ym)].payload))
  => stCall.ret = Snapshot(stLast[StoreKey(stCall.ym)].payload,
                           stLast[StoreKey(stCall.ym)].stamp)

\* C16 witness: a nested payload with items was written at a later tick,
\* over an earlier snapshot of the month, and read back
C16_Witness ==
  /\ ReadAfterWrite
  /\ stLast[StoreKey(stCall.ym)].at > 0
  /\ stLast[StoreKey(stCall.ym)].payload.k = "dict"
  /\ "central" \in DOMAIN stLast[StoreKey(stCall.ym)].payload.map
  /\ stCall.ret.kind = "tuple"
  /\ stCall.ret.payload.map["central"].k = "dict"
  /\ stCall.ret.payload.map["central"].map["CTUIL"].items # << >>

\* C16 without its precondition: any payload at all comes back identical
RoundTripOfAnyPayload ==
  ReadAfterWrite
  => stCall.ret.payload = stLast[StoreKey(stCall.ym)].payload

\* half hours elapsed at the call since the instant an aware text denotes
ElapsedSince(c) == stEnv.utc - (c.wall - c.off)

\* the last call tested the staleness of a timestamp with a UTC offset
StaleCallOnInstant == stCall.op = "stale" /\ stCall.arg.iso /\ stCall.arg.aware

\* C17: is_snapshot_stale is true exactly when more than 3 hours have
\* elapsed since the last-updated instant, in whatever offset that instant
\* is written: exactly 3 hours is not stale.
C17_StaleIffOlderThanThreshold ==
  StaleCallOnInstant => (stCall.stale <=> ElapsedSince(stCall.arg) > 3 * 2)

\* C17 witness: a timestamp exactly 3 hours old, written in another offset
\* than IST, was tested
C17_Witness ==
  /\ StaleCallOnInstant
  /\ ElapsedSince(stCall.arg) = 3 * 2
  /\ stCall.arg.off # _IST(stEnv.ist)
  /\ ~stCall.stale

\* 4 hours old is stale, 1 hour old is not
StalePointsOfSpec ==
  StaleCallOnInstant
  => /\ ElapsedSince(stCall.arg) = 4 * 2 => stCall.stale
     /\ ElapsedSince(stCall.arg) = 1 * 2 => ~stCall.stale

\* a text without offset is read as an IST wall-clock time
NaiveReadAsIst ==
  (stCall.op = "stale" /\ stCall.arg.iso /\ ~stCall.arg.aware)
  => (stCall.stale <=> stEnv.utc - (stCall.arg.wall - _IST(stEnv.ist)) > 3 * 2)

(***************************************************************************)
(* Properties of the date normalisers (SpecDates).                         *)
(***************************************************************************)
\* C18: the dotted, slash, dash and textual-month tokens of one calendar
\* date all normalise to that date (here: by _norm_date of cerc.py).
C18_TokenFormsAgree ==
  dtOut.called
  => \A f \in TokenForms : dtOut.cerc[f] = [y |-> dtIn.y, m |-> dtIn.m, d |-> dtIn.d]

\* C18, for the date detection of ctuil.py
CtuilTokenFormsAgree ==
  dtOut.called
  => \A f \in TokenForms : dtOut.ctuil[f] = [y |-> dtIn.y, m |-> dtIn.m, d |-> dtIn.d]

\* the three numeric forms agree under _norm_date
NumericFormsAgree ==
  dtOut.called
  => \A f \in NumericFmts : dtOut.cerc[f] = [y |-> dtIn.y, m |-> dtIn.m, d |-> dtIn.d]

\* C19: a month whose snapshot a read returns is returned by every later
\* read: no step of the storage API takes a readable snapshot away.
C19_NeverAbsentAgain ==
  [][\A k \in Paths :
       ReadText(stFiles[k]) # NoSnapshot => ReadText(stFiles'[k]) # NoSnapshot]_vars

\* C19 for the files of the scheduled job: no step of a run or of a writer
\* takes a readable snapshot away.
JobNeverAbsentAgain ==
  [][\A k \in Paths :
       ReadFile(files[k]) # None => ReadFile(files'[k]) # None]_vars

\* the file of a month, once created, is never removed
FileNeverRemoved ==
  [][\A k \in Paths : stFiles[k].exists => stFiles'[k].exists]_vars

\* the last_updated text a read of month key k returns
StampRead(k) == ReadText(stFiles[k]).ts.s

\* C20: the last_updated of every snapshot a write has persisted is a
\* timestamp with UTC offset +05:30 that denotes the instant of that write,
\* on every host timezone and with either definition of _IST.
C20_StampIsIstInstantOfWrite ==
  \A k \in Paths :
    (stLast[k].done /\ stLast[k].ok)
    => /\ StampRead(k).iso
       /\ StampRead(k).aware
       /\ StampRead(k).off = 5 * 2 + 1
       /\ StampRead(k).wall - StampRead(k).off = stLast[k].at

\* C20 witness: a host that is not on IST, running with the fixed-offset
\* _IST, has persisted a snapshot after the clock moved
C20_Witness ==
  \E k \in Paths :
    /\ stLast[k].done /\ stLast[k].ok
    /\ stLast[k].at > 0
    /\ stEnv.host # _IST(stEnv.ist)
    /\ stEnv.ist = "fixed"
    /\ StampRead(k).iso

(***************************************************************************)
(* Properties of the publish_month.py command (SpecCommand).               *)
(***************************************************************************)
\* the command lines that give a year and a month: two positive integers,
\* the second one naming a month
WellFormedArgv == { << "2025", "10" >>, << "2025", "11" >> }

\* the (year, month) a well-formed command line names
ArgvMonth(argv) == IF argv = << "2025", "10" >> THEN << 2025, 10 >> ELSE << 2025, 11 >>

\* C21: an invocation given a well-formed (year, month) that exits 0 has
\* persisted the harvested snapshot under the key of that (year, month); an
\* invocation given malformed arguments exits non-zero and leaves every
\* snapshot file as it was.
C21_CommandUsesItsArguments ==
  cmd.n > 0 =>
    IF cmd.argv \in WellFormedArgv
    THEN cmd.exit = 0 =>
           LET k == _month_key(DefaultPrefix, ArgvMonth(cmd.argv)[1],
                               ArgvMonth(cmd.argv)[2])
           IN  /\ cmd.key = k
               /\ cmdFiles[k].st = "ok"
               /\ cmdFiles[k].payload["central"][CTUIL_SOURCE] = cmd.items
    ELSE cmd.exit # 0 /\ cmdFiles = cmd.before

\* what the command does do: it persists under the key of the clock's month
CommandUsesClockMonth ==
  (cmd.n > 0 /\ cmd.exit = 0) =>
    LET now == ist_now(cmdClock)
        k == _month_key(DefaultPrefix, now.year, now.month)
    IN  /\ cmd.key = k
        /\ cmdFiles[k].st = "ok"
        /\ cmdFiles[k].payload["central"][CTUIL_SOURCE] = cmd.items

\* a malformed command line is not what makes the command fail
MalformedArgvExitsNonZero ==
  (cmd.n > 0 /\ cmd.argv \notin WellFormedArgv) => cmd.exit # 0

(***************************************************************************)
(* De-duplication (SpecCerc: _dedupe, SpecExtract: the loop that ends      *)
(* _extract_items).                                                        *)
(***************************************************************************)
\* the positions of a list that carry their key for the first time
FirstOfKeyCerc(its) ==
  { i \in 1..Len(its) : \A j \in 1..(i - 1) : CercKey(its[j]) # CercKey(its[i]) }

FirstOfKeyCtuil(its) ==
  { i \in 1..Len(its) : \A j \in 1..(i - 1) : CtuilKey(its[j]) # CtuilKey(its[i]) }

\* where an item stands in a list that holds it once
PosIn(its, it) == CHOOSE k \in 1..Len(its) : its[k] = it

\* the list _dedupe is given: all_items
CercDedupInput == AllItems(cercPages, cercYM[1], cercYM[2])

CtuilDedupInput ==
  LET out == RowsOut(SelectRows(exDoc), exYM[1], exYM[2])
  IN  IF out # << >> THEN out ELSE AnchorFallback(exDoc, exYM[1], exYM[2])

\* the same for CTUIL, where nothing is sorted: the result is the input
\* with every later item of a key left out
CtuilDedupKeepsFirstInInputOrder ==
  (exOut.called /\ exOut.ok) =>
    LET in == CtuilDedupInput
        out == exOut.items
        first == FirstOfKeyCtuil(in)
    IN  /\ Len(out) = Cardinality(first)
        /\ \A i \in first : out[Cardinality({ j \in first : j <= i })] = in[i]

CtuilDedupHasDuplicates ==
  ~ ( /\ exOut.called /\ exOut.ok
      /\ \E i, j \in 1..Len(CtuilDedupInput) :
           /\ i < j
           /\ CtuilKey(CtuilDedupInput[i]) = CtuilKey(CtuilDedupInput[j])
           /\ CtuilDedupInput[i] # CtuilDedupInput[j] )

(***************************************************************************)
(* The url of an extracted CTUIL item (SpecExtract).                       *)
(***************************************************************************)
\* an href resolved against the source's base URL: an absolute one kept, a
\* relative one joined to the base, the base itself only for an empty one
HrefResolved(h) ==
  CASE h.form = "abs" -> h.s
    [] h.form = "root" -> CTUIL_ORIGIN \o h.s
    [] OTHER -> CTUIL_NEWS_URL

\* C23: every extracted item carries the url of the hyperlink of the entry
\* it comes from (an element with an anchor of that title), resolved against
\* the base URL; it carries the bare base URL only when that href is empty.
C23_UrlIsRowHrefResolved ==
  (exOut.called /\ exOut.ok)
  => \A i \in 1..Len(exOut.items) :
       \E j \in 1..Len(exDoc) :
         /\ exDoc[j].lnk = "a"
         /\ exDoc[j].title = exOut.items[i].title
         /\ exOut.items[i].url = HrefResolved(exDoc[j].href)

\* what holds instead: an item taken from a row carries the base URL
\* whatever the row's href, an item of the anchor fallback the resolved href
RowItemsCarryBaseUrl ==
  (exOut.called /\ exOut.ok /\ RowsOut(SelectRows(exDoc), exYM[1], exYM[2]) # << >>)
  => \A i \in 1..Len(exOut.items) : exOut.items[i].url = CTUIL_NEWS_URL

AnchorItemsCarryResolvedHref ==
  (exOut.called /\ exOut.ok /\ RowsOut(SelectRows(exDoc), exYM[1], exYM[2]) = << >>)
  => \A i \in 1..Len(exOut.items) :
       \E j \in 1..Len(exDoc) :
         /\ exDoc[j].lnk = "a"
         /\ exDoc[j].title = exOut.items[i].title
         /\ exOut.items[i].url = HrefResolved(exDoc[j].href)

(***************************************************************************)
(* The year of a normalised date (SpecDates).                              *)
(***************************************************************************)
\* the date an item gets from what a normaliser returned: ctuil.py puts the
\* first of the target month where it found no date
FinalCtuil(dt) == DateOrFirst(dt, dtIn.target[1], dtIn.target[2])

\* C24: the normalised date of a token that states a four-digit year has
\* that year, in every way of writing it and in both adapters; with a
\* two-digit year yy it has 2000 + yy; with a day and a month only it has
\* the target year.  The target year never replaces a stated year.
C24_YearOfNormalisedDate ==
  dtOut.called =>
    /\ \A f \in TokenForms :
         /\ dtOut.cerc[f].y = dtIn.y
         /\ FinalCtuil(dtOut.ctuil[f]).y = dtIn.y
    /\ dtOut.cercShort.y = 2000 + (dtIn.y % 100)
    /\ dtOut.cercDayMonth.y = dtIn.target[1]
    /\ FinalCtuil(dtOut.ctuilBadge).y = dtIn.target[1]

\* what holds: cerc.py keeps the year of a numeric token, of four digits or
\* of two, and both adapters give a token without a year the target year
NumericYearKept ==
  dtOut.called =>
    /\ \A f \in NumericFmts : dtOut.cerc[f].y = dtIn.y
    /\ dtOut.cercShort.y = 2000 + (dtIn.y % 100)

DayMonthOnlyGetsTargetYear ==
  dtOut.called =>
    /\ dtOut.cercDayMonth.y = dtIn.target[1]
    /\ FinalCtuil(dtOut.ctuilBadge).y = dtIn.target[1]

\* ctuil.py never reads a year: every date it gives has the target year
CtuilYearIsTargetYear ==
  dtOut.called =>
    \A f \in TokenForms : FinalCtuil(dtOut.ctuil[f]).y = dtIn.target[1]

\* the textual form is where cerc.py loses the stated year
CercTextYearKept == dtOut.called => dtOut.cerc["text"].y = dtIn.y

(***************************************************************************)
(* Staleness of a text that is no timestamp (SpecStale).                   *)
(***************************************************************************)
\* C25: is_snapshot_stale returns (it does not raise) and answers False for
\* every last_updated text that datetime.fromisoformat rejects, the empty
\* text included: the text is read as the current instant.
C25_UnparseableIsNeverStale ==
  (stCall.op = "stale" /\ ~fromisoformat(stCall.arg).ok)
  => /\ stCall.stale = FALSE
     /\ Instant(_parse_aware(stCall.arg, stEnv)) = Instant(IstNow(stEnv))

\* the call was made on the empty text, at an instant later than the epoch
\* by more than the threshold
C25_Witness ==
  /\ stCall.op = "stale"
  /\ stCall.arg = Text("")
  /\ stCall.stale = FALSE
  /\ stEnv.utc > STALE_AFTER

(***************************************************************************)
(* Snapshot keys (SpecKeys).                                               *)
(***************************************************************************)
\* C26: a write under (prefix, year, month) leaves what read_month_snapshot
\* returns for every other (prefix', year', month') as it was before the
\* write.
C26_WriteChangesOnlyItsKey ==
  keyCall.n > 0 =>
    \A k \in KeyTriples :
      k # keyCall.key => ReadKey(keyFiles, k) = ReadKey(keyCall.before, k)

\* what holds: the file name separates the keys whose prefix is a single
\* path component other than "." (no "/" in the prefix)
PlainPrefix(k) == Len(k[1]) = 1

PlainKeysDistinctFiles ==
  \A k1, k2 \in KeyTriples :
    (PlainPrefix(k1) /\ PlainPrefix(k2) /\ k1 # k2) => PathOf(k1) # PathOf(k2)

PlainWriteChangesOnlyItsKey ==
  (keyCall.n > 0 /\ PlainPrefix(keyCall.key)) =>
    \A k \in KeyTriples :
      (PlainPrefix(k) /\ k # keyCall.key)
      => ReadKey(keyFiles, k) = ReadKey(keyCall.before, k)

(***************************************************************************)
(* The anchor fallback of _extract_items (SpecAnchors).                     *)
(***************************************************************************)
\* the anchors of the document (a elements with an href attribute) that
\* have a non-empty text, in document order
TextLinks(doc) ==
  SelectSeq(doc, LAMBDA e : e.lnk = "a" /\ e.href.form # "none" /\ e.title # "")

\* the rows of the chosen strategy yield no item for the target month
NoRowItem == RowsOut(SelectRows(exDoc), exYM[1], exYM[2]) = << >>

\* C27: when the rows yield no item for the target month, the result holds
\* at most 20 items; they are the first 20 anchors with a non-empty text,
\* in document order, cut to 20 before duplicates are dropped (each item
\* is one of those anchors and each of those anchors is an item); every
\* item is dated the first day of the target month.
C27_AnchorFallbackFirstTwenty ==
  (exOut.called /\ exOut.ok /\ NoRowItem) =>
    LET links == TextLinks(exDoc)
        n == IF Len(links) < 20 THEN Len(links) ELSE 20
        out == exOut.items
    IN  /\ Len(out) <= 20
        /\ \A i \in 1..Len(out) :
             /\ out[i].date = FirstOfMonth(exYM[1], exYM[2])
             /\ \E j \in 1..n :
                  /\ links[j].title = out[i].title
                  /\ HrefResolved(links[j].href) = out[i].url
        /\ \A j \in 1..n :
             \E i \in 1..Len(out) :
               /\ links[j].title = out[i].title
               /\ HrefResolved(links[j].href) = out[i].url
        /\ \A i, k \in 1..Len(out) :
             i < k =>
               \E j, l \in 1..n :
                 /\ j < l
                 /\ links[j].title = out[i].title
                 /\ links[l].title = out[k].title

\* a document with more than 20 text anchors gave exactly 20 items
C27_Witness ==
  /\ exOut.called /\ exOut.ok /\ NoRowItem
  /\ Len(TextLinks(exDoc)) > 20
  /\ Len(exOut.items) = 20

\* a document of more than 20 anchors that repeat: fewer than 20 items,
\* none of them from an anchor after the 20th
CutBeforeDedupReached ==
  ~ ( /\ exOut.called /\ exOut.ok /\ NoRowItem
      /\ Len(TextLinks(exDoc)) > 20
      /\ Len(exOut.items) < 20 )

(***************************************************************************)
(* The crontab after ensure_cron_job (SpecCron).                           *)
(***************************************************************************)
\* a line that runs publish_month.py: it names the script and is no comment
Invokes(ln) == HasPiece(ln, SCRIPT) /\ ln[1] # "# "

\* a line that has nothing to do with the job: it names neither the script
\* nor the marker, and is not empty
Unconcerned(ln) ==
  ln # BlankLine /\ ~HasPiece(ln, SCRIPT) /\ ~HasPiece(ln, TASK_NAME)

InvokingLines(c) == SelectSeq(c.lines, Invokes)

\* C28: once ensure_cron_job has returned, whatever the crontab was before
\* and however often it was called, the crontab holds exactly one line that
\* invokes publish_month.py, the every-3-hours entry, and holds every line
\* of the crontab before the first call that has nothing to do with the job.
C28_ExactlyOneJobLineOthersKept ==
  cronCall.n > 0 =>
    /\ InvokingLines(crontab) = << cron_line >>
    /\ SelectSeq(crontab.lines, Unconcerned)
         = SelectSeq(cronCall.first.lines, Unconcerned)

\* what holds: the lines of other jobs are kept, in order, by every call
OtherLinesKept ==
  SelectSeq(crontab.lines, Unconcerned) = SelectSeq(cronCall.first.lines, Unconcerned)

\* the every-3-hours entry is there once after the first call, and it is the
\* only invoking line from the second call on
CronLineOnce ==
  cronCall.n > 0 =>
    Len(SelectSeq(crontab.lines, LAMBDA ln : ln = cron_line)) = 1

ExactlyOneFromSecondCall ==
  cronCall.n > 1 => InvokingLines(crontab) = << cron_line >>

\* a crontab that held no entry for the script gets exactly one
ExactlyOneWithoutOldEntry ==
  (cronCall.n > 0 /\ ~InText(cronCall.first.lines, LAMBDA ln : ln = OldEntry))
  => InvokingLines(crontab) = << cron_line >>

\* empty lines are kept by the first install and lost by a re-install
BlankLinesKept ==
  cronCall.n > 0 =>
    \A i \in 1..Len(cronCall.first.lines) :
      cronCall.first.lines[i] = BlankLine
      => \E j \in 1..Len(crontab.lines) : crontab.lines[j] = BlankLine

====
